---- MODULE Spec2Model ----
(***************************************************************************)
(* DeskFlow MCP server: the workspace-index aggregation and graph          *)
(* traversal layer (tools/desktops.py, tools/search.py, server_remote.py). *)
(*                                                                         *)
(* The backend tables are external state: each specification below draws   *)
(* one family of tables in its Init and the tool handlers are the actions. *)
(* A table is a sequence in storage order; ids are opaque labels, so the   *)
(* row stored at position i is given id i.  A query without an ORDER BY    *)
(* returns the rows in storage order.                                      *)
(*                                                                         *)
(* The tool handlers are modelled from the point where check_rate_limit    *)
(* has admitted the request and get_authenticated_client has returned; the *)
(* identifier validation that follows is part of each action.  The rate    *)
(* limiter itself is the action CheckRateLimit of SpecRateLimit.           *)
(***************************************************************************)
EXTENDS Integers, Sequences, FiniteSets, TLC

VARIABLES
    workspaces,     \* backend table "workspaces", storage order
    desktops,       \* backend table "desktops" (all workspaces), storage order
    notes,          \* backend table "notes", storage order
    folders,        \* backend table "folders", storage order
    connections,    \* backend table "connections", storage order
    assets,         \* backend table "assets", storage order
    response,       \* what the last handled request returned or raised
    request_timestamps, \* AuthManager._request_timestamps
    now,            \* what time.time() returns, in seconds
    pending,        \* requests on the event loop not yet run, read and write
    calls,          \* the requests CheckRateLimit has run, with their outcome
    current_user,   \* AuthManager._current_user
    token_expires_at \* AuthManager._token_expires_at

\* The backend tables.
backend == <<workspaces, desktops, notes, folders, connections, assets>>

\* The rate limiter, its clock and its callers.
limiter == <<request_timestamps, now, pending, calls>>

\* The cached credential.
session == <<current_user, token_expires_at>>

vars == <<backend, response, limiter, session>>

\* Python's None / SQL NULL where a row id is expected (row ids start at 1).
None == 0

\* SQL NULL in a timestamp column; a timestamp t is stored as <<t>>.
Null == <<>>

\* Python's None where an AuthenticatedUser is expected; a user u is <<u>>.
NoUser == <<>>

\* The server is idle: the last response was delivered and no request is
\* being handled.
NoResponse == [op |-> "none", status |-> "none"]

-----------------------------------------------------------------------------
(* Bounds of the model *)

NDesk == 3              \* rows of a general desktops table
MaxChain == 15          \* longest linear chain of nested desktops
MaxDepthArg == 1        \* small max_depth arguments tried besides the default
RecursionLimit == 20    \* CPython's recursion limit, scaled to the table sizes
NNotes == 3             \* rows of a notes table searched
MaxLimit == 2           \* small limit arguments tried besides the default
NGraphNotes == 3        \* notes of a general connection graph
MaxConns == 2           \* rows of a general connections table
MaxNoteChain == 7       \* longest linear chain of connected notes
MaxDepthReq == 2        \* small depth arguments tried besides one above 5
NAggDesk == 2           \* desktops of a general table aggregated over
NAggNotes == 2          \* notes of a general table aggregated over
NAggAssets == 2         \* assets of a general table aggregated over
RateLimitRead == 3      \* config.rate_limit_read (RATE_LIMIT_READ)
RateLimitWrite == 2     \* config.rate_limit_write (RATE_LIMIT_WRITE)
TickSeconds == 20       \* seconds by which the clock is seen to advance
MaxTime == 80           \* the clock is followed up to this time
MaxCalls == 5           \* calls of check_rate_limit followed
MaxPending == 2         \* requests waiting on the event loop at a time
NConnNotes == 2         \* notes of the desktop connections are created on
NDeleteRows == 2        \* rows of each table the delete tools start from
MaxHubs == 2            \* hub hierarchies sendell_init is seen to create
MaxTokens == 3          \* access tokens the backend is seen to issue
ShortLifetime == 60     \* seconds a short-lived session lasts
LongLifetime == 100     \* seconds a long-lived session lasts

(* Program constants *)

DefaultMaxDepth == 10   \* max_depth: int = 10
UuidLen == 36           \* len(workspace_id) != 36
DefaultLimit == 20      \* limit: int = 20
MaxSearchLimit == 100   \* limit = min(max(1, limit), 100)
MaxTraversalDepth == 5  \* depth = min(max(1, depth), 5)
Window == 60            \* window = 60  # 1 minute window
ExpiryMargin == 60      \* time.time() < self._token_expires_at - 60

-----------------------------------------------------------------------------
(* Identifiers *)

\* Workspaces that exist in the backend.
WorkspaceIds == {"W1", "W2"}

\* Identifiers a request may carry: an existing workspace, a well-formed id
\* naming no workspace ("W0"), and a malformed one ("bad").
RequestWorkspaceIds == WorkspaceIds \cup {"W0", "bad"}

\* len(x) of an identifier string.
StrLen(x) == IF x = "bad" THEN 3 ELSE UuidLen

\* `not workspace_id or len(workspace_id) != 36`
IsMalformed(x) == StrLen(x) # UuidLen

PositionOrders == 0..1

\* The workspaces of the backend, none of them deleted.
LiveWorkspaces ==
    <<[id |-> "W1", deleted_at |-> Null], [id |-> "W2", deleted_at |-> Null]>>

-----------------------------------------------------------------------------
(* The desktops table *)

\* A general table of n rows: any workspace, any parent among the rows
\* (parent_id is a foreign key on desktops.id, so it names a stored row, of
\* whatever workspace, cycles and self-parents included), any position_order.
GeneralDesktopTable(n, w, p, o) ==
    [i \in 1..n |-> [id |-> i, workspace_id |-> w[i],
                     parent_id |-> p[i], position_order |-> o[i]]]

\* A linear chain of k nested desktops of workspace W1, stored root first
\* (down = TRUE) or deepest first.
ChainTable(k, down) ==
    [i \in 1..k |-> [id |-> i, workspace_id |-> "W1",
                     parent_id |-> IF down
                                   THEN (IF i = 1 THEN None ELSE i - 1)
                                   ELSE (IF i = k THEN None ELSE i + 1),
                     position_order |-> 0]]

\* One larger workspace W1 holding every shape at once: two roots stored
\* against their position_order, a grandchild, a desktop whose parent belongs
\* to workspace W2 with a desktop below it, and a two-cycle.
MixedForestTable ==
    LET Row(i, w, p, o) ==
            [id |-> i, workspace_id |-> w, parent_id |-> p, position_order |-> o]
    IN  << Row(1, "W1", None, 1), Row(2, "W1", None, 0),
           Row(3, "W1", 1, 0),    Row(4, "W1", 3, 0),
           Row(5, "W2", None, 0), Row(6, "W1", 5, 0),
           Row(7, "W1", 6, 0),    Row(8, "W1", 9, 0),
           Row(9, "W1", 8, 0) >>

\* The desktops tables the hierarchy specification starts from.
IsDesktopTable(t) ==
    \/ \E n \in 0..NDesk :
          \E w \in [1..n -> WorkspaceIds],
             p \in [1..n -> (1..n) \cup {None}],
             o \in [1..n -> PositionOrders] :
                t = GeneralDesktopTable(n, w, p, o)
    \/ \E k \in (NDesk + 1)..MaxChain, down \in BOOLEAN :
          t = ChainTable(k, down)
    \/ t = MixedForestTable

-----------------------------------------------------------------------------
(* Backend queries on desktops *)

\* .order("position_order"): insertion of one row into an ascending list,
\* after the rows that are not greater (the sort is stable on storage order).
RECURSIVE InsertByPosition(_, _)
InsertByPosition(row, sorted) ==
    IF sorted = <<>> THEN <<row>>
    ELSE IF Head(sorted).position_order <= row.position_order
         THEN <<Head(sorted)>> \o InsertByPosition(row, Tail(sorted))
         ELSE <<row>> \o sorted

RECURSIVE OrderByPosition(_)
OrderByPosition(rows) ==
    IF rows = <<>> THEN <<>>
    ELSE InsertByPosition(rows[Len(rows)],
                          OrderByPosition(SubSeq(rows, 1, Len(rows) - 1)))

\* Mutant: the query without its .order("position_order").
FetchDesktops_Unordered(wid) ==
    SelectSeq(desktops, LAMBDA d : d.workspace_id = wid)

\* client.table("desktops").select(...).eq("workspace_id", wid)
\*       .order("position_order").execute()
FetchDesktopsOrdered(wid) ==
    OrderByPosition(SelectSeq(desktops, LAMBDA d : d.workspace_id = wid))

-----------------------------------------------------------------------------
(* get_desktop_hierarchy: add_level *)

\* The item standing for a RecursionError raised below this point.
RecursionErrorItem == [id |-> None, level |-> -1]

\* Mutant: a self-parented desktop is taken for a root.
IsChildOf_SelfParentIsRoot(d, parent_id) ==
    \/ d.parent_id = parent_id
    \/ parent_id = None /\ d.parent_id = d.id

\* Mutant: a desktop whose parent belongs to another workspace is taken for a
\* root.
IsChildOf_OrphanIsRoot(d, parent_id) ==
    \/ d.parent_id = parent_id
    \/ /\ parent_id = None
       /\ d.parent_id # None
       /\ desktops[d.parent_id].workspace_id # d.workspace_id

\* `d.get("parent_id") == parent_id`
IsChildOf(d, parent_id) == d.parent_id = parent_id

\* Mutant: the bound is exclusive.
WithinDepth_Exclusive(level, max_depth) == level < max_depth

\* `level <= max_depth`
WithinDepth(level, max_depth) == level <= max_depth

\* Mutant: the recursive call passes level on unchanged.
ChildLevel_Unchanged(level) == level

\* `level + 1` of the recursive call
ChildLevel(level) == level + 1

\* items.extend(...) over the loop: the lists of the iterations, joined.
RECURSIVE Concat(_)
Concat(lists) ==
    IF lists = <<>> THEN <<>> ELSE Head(lists) \o Concat(Tail(lists))

\* add_level(desktop_list, parent_id, level): the for loop appends, for each
\* d of desktop_list that passes the test, d with its level written and then
\* the items of the recursive call on d.  Each item is the visit of one
\* desktop dict with the level written to it; frames counts the nested calls.
RECURSIVE add_level(_, _, _, _, _)
add_level(desktop_list, parent_id, level, max_depth, frames) ==
    IF frames > RecursionLimit THEN <<RecursionErrorItem>>
    ELSE
    LET passing == SelectSeq(desktop_list,
                       LAMBDA d : IsChildOf(d, parent_id)
                                  /\ WithinDepth(level, max_depth))
    IN  Concat([i \in 1..Len(passing) |->
                  <<[id |-> passing[i].id, level |-> level]>>
                  \o add_level(desktop_list, passing[i].id, ChildLevel(level),
                               max_depth, frames + 1)])

\* d["level"] = level writes into the dict that items holds: an entry of the
\* returned list shows the level last written to its desktop.
LastLevel(visits, id) ==
    LET idx == { i \in 1..Len(visits) : visits[i].id = id } IN
    visits[CHOOSE i \in idx : \A j \in idx : j <= i].level

ReturnedItems(visits) ==
    [i \in 1..Len(visits) |->
        [id |-> visits[i].id, level |-> LastLevel(visits, visits[i].id)]]

\* The response of get_desktop_hierarchy(workspace_id, max_depth): the list
\* it returns, or the exception it raises.
get_desktop_hierarchy(workspace_id, max_depth) ==
    IF IsMalformed(workspace_id)
    THEN [op |-> "get_desktop_hierarchy", status |-> "invalid",
          workspace_id |-> workspace_id, max_depth |-> max_depth,
          items |-> <<>>]
    ELSE LET visits == add_level(FetchDesktopsOrdered(workspace_id),
                                 None, 0, max_depth, 1)
         IN  IF \E i \in 1..Len(visits) : visits[i] = RecursionErrorItem
             THEN [op |-> "get_desktop_hierarchy", status |-> "recursion_error",
                   workspace_id |-> workspace_id, max_depth |-> max_depth,
                   items |-> <<>>]
             ELSE [op |-> "get_desktop_hierarchy", status |-> "ok",
                   workspace_id |-> workspace_id, max_depth |-> max_depth,
                   items |-> ReturnedItems(visits)]

MaxDepthArgs == (0..MaxDepthArg) \cup {DefaultMaxDepth}

GetDesktopHierarchy ==
    \E wid \in RequestWorkspaceIds, m \in MaxDepthArgs :
        /\ response = NoResponse
        /\ response' = get_desktop_hierarchy(wid, m)
        /\ UNCHANGED <<backend, limiter, session>>

-----------------------------------------------------------------------------
(* get_workspace_index *)

\* client.table("workspaces").select(...).eq("id", wid)
\*       .is_("deleted_at", "null").single().execute(): whether a row came back
WorkspaceFound(wid) ==
    \E i \in 1..Len(workspaces) :
        workspaces[i].id = wid /\ workspaces[i].deleted_at = Null

\* .in_("desktop_id", desktop_ids) on notes, folders or connections
RowsOfDesktops(table, desktop_ids) ==
    SelectSeq(table, LAMBDA r : r.desktop_id \in desktop_ids)

\* Mutant: a desktop is given the fetched rows of every desktop.
ByDesktop_AnyDesktop(rows, did) == [i \in 1..Len(rows) |-> rows[i].id]

\* notes_by_desktop.get(did, []) / folders_by_desktop.get(did, []): the ids
\* of the fetched rows of desktop did, in fetch order
ByDesktop(rows, did) ==
    LET mine == SelectSeq(rows, LAMBDA r : r.desktop_id = did)
    IN  [i \in 1..Len(mine) |-> mine[i].id]

\* The node standing for a RecursionError raised below this point.
RecursionErrorNode ==
    [id |-> None, level |-> -1, notes |-> <<>>, folders |-> <<>>,
     note_count |-> 0, folder_count |-> 0, children |-> <<>>]

\* build_tree(parent_id, level): one node for each d of desktop_list whose
\* parent_id is parent_id, in list order, its children built by the recursive
\* call.  frames counts the nested calls.
RECURSIVE build_tree(_, _, _, _, _, _)
build_tree(desktop_list, all_notes, all_folders, parent_id, level, frames) ==
    IF frames > RecursionLimit THEN <<RecursionErrorNode>>
    ELSE
    LET passing == SelectSeq(desktop_list, LAMBDA d : IsChildOf(d, parent_id))
    IN  [i \in 1..Len(passing) |->
            [id |-> passing[i].id,
             level |-> level,
             notes |-> ByDesktop(all_notes, passing[i].id),
             folders |-> ByDesktop(all_folders, passing[i].id),
             note_count |-> Len(ByDesktop(all_notes, passing[i].id)),
             folder_count |-> Len(ByDesktop(all_folders, passing[i].id)),
             children |-> build_tree(desktop_list, all_notes, all_folders,
                                     passing[i].id, ChildLevel(level),
                                     frames + 1)]]

\* Whether a RecursionError was raised while the tree was built.
RECURSIVE RaisedRecursionError(_)
RaisedRecursionError(tree) ==
    \E i \in 1..Len(tree) :
        \/ tree[i] = RecursionErrorNode
        \/ RaisedRecursionError(tree[i].children)

\* A response of get_workspace_index without content: an exception, or the
\* early return for a workspace without desktops.  queries lists the tables
\* queried, in order.
IndexError(workspace_id, status, queries) ==
    [op |-> "get_workspace_index", status |-> status,
     workspace_id |-> workspace_id, tree |-> <<>>,
     flat_notes |-> <<>>, flat_folders |-> <<>>,
     stats |-> [desktops |-> 0, notes |-> 0, folders |-> 0, connections |-> 0],
     queries |-> queries]

\* Mutant: the early return for a workspace without desktops is left out.
IndexNoDesktops_Never(desktop_ids) == FALSE

\* `if not desktop_ids`
IndexNoDesktops(desktop_ids) == desktop_ids = {}

\* The response of get_workspace_index(workspace_id).
get_workspace_index(workspace_id) ==
    IF IsMalformed(workspace_id) THEN IndexError(workspace_id, "invalid", <<>>)
    ELSE IF ~WorkspaceFound(workspace_id)
    THEN IndexError(workspace_id, "not_found", <<"workspaces">>)
    ELSE
    LET desktop_list == FetchDesktopsOrdered(workspace_id)
        desktop_ids == { desktop_list[i].id : i \in 1..Len(desktop_list) }
    IN
    IF IndexNoDesktops(desktop_ids)
    THEN IndexError(workspace_id, "ok", <<"workspaces", "desktops">>)
    ELSE
    LET all_notes == RowsOfDesktops(notes, desktop_ids)
        all_folders == RowsOfDesktops(folders, desktop_ids)
        all_connections == RowsOfDesktops(connections, desktop_ids)
        tree == build_tree(desktop_list, all_notes, all_folders, None, 0, 1)
    IN
    IF RaisedRecursionError(tree)
    THEN IndexError(workspace_id, "recursion_error",
                    <<"workspaces", "desktops", "notes", "folders",
                      "connections">>)
    ELSE [op |-> "get_workspace_index", status |-> "ok",
          workspace_id |-> workspace_id,
          tree |-> tree,
          flat_notes |-> [i \in 1..Len(all_notes) |->
                            [id |-> all_notes[i].id,
                             desktop_id |-> all_notes[i].desktop_id]],
          flat_folders |-> [i \in 1..Len(all_folders) |->
                            [id |-> all_folders[i].id,
                             desktop_id |-> all_folders[i].desktop_id]],
          stats |-> [desktops |-> Len(desktop_list),
                     notes |-> Len(all_notes),
                     folders |-> Len(all_folders),
                     connections |-> Len(all_connections)],
          queries |-> <<"workspaces", "desktops", "notes", "folders",
                        "connections">>]

GetWorkspaceIndex ==
    \E wid \in RequestWorkspaceIds :
        /\ response = NoResponse
        /\ response' = get_workspace_index(wid)
        /\ UNCHANGED <<backend, limiter, session>>

-----------------------------------------------------------------------------
(* get_workspace_stats *)

\* client.table("desktops").select("id").eq("workspace_id", wid).execute():
\* the rows that came back
DesktopRowsOf(wid) == SelectSeq(desktops, LAMBDA d : d.workspace_id = wid)

\* .select("id", count="exact").in_("desktop_id", desktop_ids).execute().count
CountOfDesktops(table, desktop_ids) == Len(RowsOfDesktops(table, desktop_ids))

\* `note_ids = [n["id"] for n in (note_ids_result.data or [])]`
NoteIdsOfDesktops(desktop_ids) ==
    LET rows == RowsOfDesktops(notes, desktop_ids)
    IN  { rows[i].id : i \in 1..Len(rows) }

\* Mutant: the assets are counted without the filter on note_id.
AssetCount_Unscoped(note_ids) == Len(assets)

\* client.table("assets").select("id", count="exact")
\*       .in_("note_id", note_ids).execute().count
AssetCount(note_ids) == Len(SelectSeq(assets, LAMBDA a : a.note_id \in note_ids))

\* Mutant: the early return for a workspace without desktops is left out.
StatsNoDesktops_Never(desktop_count) == FALSE

\* `if desktop_count == 0`
StatsNoDesktops(desktop_count) == desktop_count = 0

StatsResponse(workspace_id, status, d, n, f, c, a, queries) ==
    [op |-> "get_workspace_stats", status |-> status,
     workspace_id |-> workspace_id,
     desktops |-> d, notes |-> n, folders |-> f, connections |-> c,
     assets |-> a, queries |-> queries]

\* The response of get_workspace_stats(workspace_id); queries lists the
\* tables queried, in order.
get_workspace_stats(workspace_id) ==
    IF IsMalformed(workspace_id)
    THEN StatsResponse(workspace_id, "invalid", 0, 0, 0, 0, 0, <<>>)
    ELSE
    LET rows == DesktopRowsOf(workspace_id)
        desktop_count == Len(rows)
    IN
    IF StatsNoDesktops(desktop_count)
    THEN StatsResponse(workspace_id, "ok", 0, 0, 0, 0, 0, <<"desktops">>)
    ELSE
    LET desktop_ids == { rows[i].id : i \in 1..Len(rows) }
        note_ids == NoteIdsOfDesktops(desktop_ids)
    IN  StatsResponse(workspace_id, "ok",
            desktop_count,
            CountOfDesktops(notes, desktop_ids),
            CountOfDesktops(folders, desktop_ids),
            CountOfDesktops(connections, desktop_ids),
            IF note_ids # {} THEN AssetCount(note_ids) ELSE 0,
            <<"desktops", "notes", "folders", "connections", "notes">>
            \o (IF note_ids # {} THEN <<"assets">> ELSE <<>>))

GetWorkspaceStats ==
    \E wid \in RequestWorkspaceIds :
        /\ response = NoResponse
        /\ response' = get_workspace_stats(wid)
        /\ UNCHANGED <<backend, limiter, session>>

-----------------------------------------------------------------------------
(* search_notes and the REST api_search *)

\* A note row as a query returns it: a fresh dict without a match_type key
\* (match_type "" stands for the absent key).  title_match and content_match
\* say whether the row passes .ilike("title", "%query%") and
\* .ilike("content", "%query%") for the query of the request.
NoteDict(row) == [id |-> row.id, desktop_id |-> row.desktop_id, match_type |-> ""]

\* .limit(n): the first n rows.
Limit(rows, n) == SubSeq(rows, 1, IF n < Len(rows) THEN n ELSE Len(rows))

\* client.table("desktops").select("id").eq("workspace_id", wid).execute()
DesktopIdsOf(wid) ==
    { desktops[i].id : i \in { j \in 1..Len(desktops) :
                                 desktops[j].workspace_id = wid } }

\* client.table("notes").select(fields).in_("desktop_id", desktop_ids)
\*       .ilike("title", ...).limit(limit).execute()
TitleResults(desktop_ids, limit) ==
    LET rows == Limit(SelectSeq(notes, LAMBDA n : n.desktop_id \in desktop_ids
                                                  /\ n.title_match), limit)
    IN  [i \in 1..Len(rows) |-> NoteDict(rows[i])]

\* The same with .ilike("content", ...)
ContentResults(desktop_ids, limit) ==
    LET rows == Limit(SelectSeq(notes, LAMBDA n : n.desktop_id \in desktop_ids
                                                  /\ n.content_match), limit)
    IN  [i \in 1..Len(rows) |-> NoteDict(rows[i])]

\* Mutant: every note passes, seen or not.
NotSeen_Always(note, seen_ids) == TRUE

\* `note["id"] not in seen_ids`
NotSeen(note, seen_ids) == note.id \notin seen_ids

\* Mutant: the tags are exchanged.
MatchType_Exchanged(note, title_data) ==
    IF \E j \in 1..Len(title_data) : title_data[j] = note
    THEN "content" ELSE "title"

\* `"title" if note in (title_results.data or []) else "content"`: list
\* membership compares the dicts, as they are at that moment.
MatchType(note, title_data) ==
    IF \E j \in 1..Len(title_data) : title_data[j] = note
    THEN "title" ELSE "content"

\* The merge loop of search_notes from position k of the concatenation
\* title_results.data + content_results.data.  The concatenation holds the
\* dicts of both lists themselves, so tagging a note of the title list shows
\* in title_data.
RECURSIVE merge_tagged(_, _, _, _, _)
merge_tagged(k, title_data, content_data, seen_ids, results) ==
    IF k > Len(title_data) + Len(content_data) THEN results
    ELSE LET from_title == k <= Len(title_data)
             note == IF from_title THEN title_data[k]
                     ELSE content_data[k - Len(title_data)]
         IN  IF NotSeen(note, seen_ids)
             THEN LET tagged == [note EXCEPT
                                   !.match_type = MatchType(note, title_data)]
                  IN  merge_tagged(k + 1,
                          IF from_title
                          THEN [title_data EXCEPT ![k] = tagged]
                          ELSE title_data,
                          content_data,
                          seen_ids \cup {note.id},
                          Append(results, tagged))
             ELSE merge_tagged(k + 1, title_data, content_data, seen_ids,
                               results)

\* `limit = min(max(1, limit), 100)`
ClampLimit(limit) ==
    LET lo == IF limit < 1 THEN 1 ELSE limit
    IN  IF lo > MaxSearchLimit THEN MaxSearchLimit ELSE lo

\* `results[:limit]` for limit >= 0
Truncate(results, limit) == Limit(results, limit)

SearchResponse(workspace_id, query_ok, limit, status, results) ==
    [op |-> "search_notes", status |-> status, workspace_id |-> workspace_id,
     query_ok |-> query_ok, limit |-> limit, results |-> results]

\* The response of search_notes(workspace_id, query, limit); query_ok says
\* that query is neither blank nor longer than 500 characters.
search_notes(workspace_id, query_ok, limit) ==
    IF IsMalformed(workspace_id) \/ ~query_ok
    THEN SearchResponse(workspace_id, query_ok, limit, "invalid", <<>>)
    ELSE LET desktop_ids == DesktopIdsOf(workspace_id)
             lim == ClampLimit(limit)
         IN  IF desktop_ids = {}
             THEN SearchResponse(workspace_id, query_ok, limit, "ok", <<>>)
             ELSE SearchResponse(workspace_id, query_ok, limit, "ok",
                    Truncate(merge_tagged(1, TitleResults(desktop_ids, lim),
                                          ContentResults(desktop_ids, lim),
                                          {}, <<>>),
                             lim))

\* The merge loop of api_search from position k of the concatenation.
RECURSIVE merge_plain(_, _, _, _)
merge_plain(k, all_data, seen, results) ==
    IF k > Len(all_data) THEN results
    ELSE IF NotSeen(all_data[k], seen)
         THEN merge_plain(k + 1, all_data, seen \cup {all_data[k].id},
                          Append(results, all_data[k]))
         ELSE merge_plain(k + 1, all_data, seen, results)

\* The response of POST /api/search (request.workspace_id is not validated
\* and request.limit is used as given).
api_search(workspace_id, limit) ==
    LET desktop_ids == DesktopIdsOf(workspace_id) IN
    IF desktop_ids = {}
    THEN [op |-> "api_search", status |-> "ok", workspace_id |-> workspace_id,
          limit |-> limit, results |-> <<>>, count |-> 0]
    ELSE LET results == merge_plain(1, TitleResults(desktop_ids, limit)
                                       \o ContentResults(desktop_ids, limit),
                                    {}, <<>>)
         IN  [op |-> "api_search", status |-> "ok",
              workspace_id |-> workspace_id, limit |-> limit,
              results |-> Truncate(results, limit),
              count |-> Len(results)]

LimitArgs == (0..MaxLimit) \cup {DefaultLimit}

SearchNotes ==
    \E wid \in RequestWorkspaceIds, query_ok \in BOOLEAN, limit \in LimitArgs :
        /\ response = NoResponse
        /\ response' = search_notes(wid, query_ok, limit)
        /\ UNCHANGED <<backend, limiter, session>>

ApiSearch ==
    \E wid \in RequestWorkspaceIds, limit \in LimitArgs :
        /\ response = NoResponse
        /\ response' = api_search(wid, limit)
        /\ UNCHANGED <<backend, limiter, session>>

-----------------------------------------------------------------------------
(* find_connected_notes *)

\* A note id that is no UUID (an id is a positive number otherwise).
BadNoteId == -1

\* `not note_id or len(note_id) != 36`
IsMalformedNoteId(note_id) ==
    (IF note_id = BadNoteId THEN 3 ELSE UuidLen) # UuidLen

\* Mutant: the upper bound of the clamp is left out.
ClampDepth_NoCeiling(depth) == IF depth < 1 THEN 1 ELSE depth

\* `depth = min(max(1, depth), 5)`
ClampDepth(depth) ==
    LET lo == IF depth < 1 THEN 1 ELSE depth
    IN  IF lo > MaxTraversalDepth THEN MaxTraversalDepth ELSE lo

\* Mutant: the lookup answers with a row whatever the id.
NoteById_AnyId(note_id) ==
    <<[id |-> note_id, desktop_id |-> 1,
       title_match |-> FALSE, content_match |-> FALSE]>>

\* client.table("notes").select(...).eq("id", note_id).single().execute():
\* the rows that came back (the notes table holds what the caller may read).
NoteById(note_id) == SelectSeq(notes, LAMBDA n : n.id = note_id)

\* A connection row as the queries of the traversal select it.
ConnDict(row) ==
    [id |-> row.id, from_note_id |-> row.from_note_id,
     to_note_id |-> row.to_note_id]

\* Mutant: the outgoing query is left out.
Outgoing_LeftOut(current_level) == <<>>

\* .in_("from_note_id", current_level)
Outgoing(current_level) ==
    LET rows == SelectSeq(connections,
                          LAMBDA c : c.from_note_id \in current_level)
    IN  [i \in 1..Len(rows) |-> ConnDict(rows[i])]

\* Mutant: the incoming query is left out.
Incoming_LeftOut(current_level) == <<>>

\* .in_("to_note_id", current_level)
Incoming(current_level) ==
    LET rows == SelectSeq(connections,
                          LAMBDA c : c.to_note_id \in current_level)
    IN  [i \in 1..Len(rows) |-> ConnDict(rows[i])]

\* Mutant: the start note is not marked visited.
InitialVisited_Empty(note_id) == {}

\* `visited = {note_id}`
InitialVisited(note_id) == {note_id}

\* Mutant: only the to_note_id end of a connection is looked at.
NewNoteIds_OnlyTargets(all_connections, visited) ==
    { all_connections[i].to_note_id : i \in 1..Len(all_connections) } \ visited

\* new_note_ids after the loop over all_connections: the endpoints not yet
\* visited (each is added to visited as it is met, so it is collected once).
NewNoteIds(all_connections, visited) ==
    ( { all_connections[i].from_note_id : i \in 1..Len(all_connections) }
      \cup { all_connections[i].to_note_id : i \in 1..Len(all_connections) } )
    \ visited

\* client.table("notes").select(...).in_("id", list(new_note_ids)).execute()
NotesByIds(ids) ==
    LET rows == SelectSeq(notes, LAMBDA n : n.id \in ids)
    IN  [i \in 1..Len(rows) |-> rows[i].id]

\* Mutant: the loop never breaks on an empty level.
FrontierExhausted_Never(current_level) == FALSE

\* `if not current_level: break`
FrontierExhausted(current_level) == current_level = {}

\* The `for _ in range(depth)` loop with rounds_left rounds to go.  acc holds
\* result["connected_notes"], result["connections"] and the tables queried so
\* far.
RECURSIVE expand(_, _, _, _)
expand(rounds_left, current_level, visited, acc) ==
    IF rounds_left = 0 \/ FrontierExhausted(current_level) THEN acc
    ELSE LET all_connections == Outgoing(current_level) \o Incoming(current_level)
             new_note_ids == NewNoteIds(all_connections, visited)
         IN  expand(rounds_left - 1, new_note_ids, visited \cup new_note_ids,
                 [connected_notes |->
                      acc.connected_notes
                      \o (IF new_note_ids = {} THEN <<>>
                          ELSE NotesByIds(new_note_ids)),
                  connections |-> acc.connections \o all_connections,
                  queries |->
                      acc.queries \o <<"connections", "connections">>
                      \o (IF new_note_ids = {} THEN <<>> ELSE <<"notes">>)])

\* Mutant: every connection passes, seen or not.
ConnNotSeen_Always(conn, seen_conn) == TRUE

\* `conn["id"] not in seen_conn`
ConnNotSeen(conn, seen_conn) == conn.id \notin seen_conn

\* The `Remove duplicate connections` loop from position k.
RECURSIVE unique_connections(_, _, _, _)
unique_connections(k, conns, seen_conn, unique) ==
    IF k > Len(conns) THEN unique
    ELSE IF ConnNotSeen(conns[k], seen_conn)
         THEN unique_connections(k + 1, conns, seen_conn \cup {conns[k].id},
                                 Append(unique, conns[k]))
         ELSE unique_connections(k + 1, conns, seen_conn, unique)

ConnectedResponse(note_id, depth, status, root, acc) ==
    [op |-> "find_connected_notes", status |-> status, note_id |-> note_id,
     depth |-> depth, root |-> root,
     connected_notes |-> acc.connected_notes,
     connections |-> acc.connections,
     queries |-> acc.queries]

\* The response of find_connected_notes(note_id, depth).
find_connected_notes(note_id, depth) ==
    IF IsMalformedNoteId(note_id)
    THEN ConnectedResponse(note_id, depth, "invalid", None,
             [connected_notes |-> <<>>, connections |-> <<>>, queries |-> <<>>])
    ELSE IF NoteById(note_id) = <<>>
    THEN ConnectedResponse(note_id, depth, "not_found", None,
             [connected_notes |-> <<>>, connections |-> <<>>,
              queries |-> <<"notes">>])
    ELSE LET acc == expand(ClampDepth(depth), {note_id},
                           InitialVisited(note_id),
                           [connected_notes |-> <<>>, connections |-> <<>>,
                            queries |-> <<"notes">>])
         IN  ConnectedResponse(note_id, depth, "ok", note_id,
                 [acc EXCEPT !.connections =
                      unique_connections(1, acc.connections, {}, <<>>)])

DepthArgs == (0..MaxDepthReq) \cup {MaxTraversalDepth, MaxTraversalDepth + 1}

\* The note ids a request may name: the endpoint of some connection, a stored
\* note, an id naming nothing the caller can read, or a malformed id.
RequestNoteIds ==
    (1..Len(notes))
    \cup { connections[i].from_note_id : i \in 1..Len(connections) }
    \cup { connections[i].to_note_id : i \in 1..Len(connections) }
    \cup {Len(notes) + 1, BadNoteId}

FindConnectedNotes ==
    \E note_id \in RequestNoteIds, depth \in DepthArgs :
        /\ response = NoResponse
        /\ response' = find_connected_notes(note_id, depth)
        /\ UNCHANGED <<backend, limiter, session>>

-----------------------------------------------------------------------------
(* The response leaves the server, which is idle again.  Requests are handled
   one at a time: a handler runs to its return without awaiting anything but
   the backend. *)

Deliver ==
    /\ response # NoResponse
    /\ response' = NoResponse
    /\ UNCHANGED <<backend, limiter, session>>

-----------------------------------------------------------------------------
(* AuthManager.check_rate_limit *)

\* Mutant: no timestamp is ever dropped from the list.
CleanOld_KeepAll(timestamps, t) == timestamps

\* `[ts for ts in self._request_timestamps if ts > now - window]`
CleanOld(timestamps, t) == SelectSeq(timestamps, LAMBDA ts : ts > t - Window)

\* `self.config.rate_limit_write if is_write else self.config.rate_limit_read`
LimitFor(is_write) == IF is_write THEN RateLimitWrite ELSE RateLimitRead

\* Mutant: the comparison is strict.
ReachedLimit_Strict(timestamps, limit) == Len(timestamps) > limit

\* `len(self._request_timestamps) >= limit`
ReachedLimit(timestamps, limit) == Len(timestamps) >= limit

\* check_rate_limit(is_write) called at time t: the list it leaves and
\* whether it raised.  The list is cleaned before the test, so a rejected
\* call leaves the cleaned list.
check_rate_limit(timestamps, t, is_write) ==
    LET kept == CleanOld(timestamps, t) IN
    IF ReachedLimit(kept, LimitFor(is_write))
    THEN [timestamps |-> kept, raised |-> TRUE]
    ELSE [timestamps |-> Append(kept, t), raised |-> FALSE]

\* A request reaches the server and waits for the event loop to run its
\* handler.
Arrive ==
    \E is_write \in BOOLEAN :
        /\ pending.reads + pending.writes < MaxPending
        /\ Len(calls) + pending.reads + pending.writes < MaxCalls
        /\ pending' = IF is_write
                      THEN [pending EXCEPT !.writes = @ + 1]
                      ELSE [pending EXCEPT !.reads = @ + 1]
        /\ UNCHANGED <<backend, response, request_timestamps, now, calls, session>>

\* The event loop runs the handler of one waiting request, whichever: its
\* first statement is check_rate_limit(is_write), which holds no await and so
\* runs to its end before any other handler.  If it raises, the ValueError is
\* the response; otherwise the handler goes on.
CheckRateLimit ==
    \E is_write \in BOOLEAN :
        /\ IF is_write THEN pending.writes > 0 ELSE pending.reads > 0
        /\ pending' = IF is_write
                      THEN [pending EXCEPT !.writes = @ - 1]
                      ELSE [pending EXCEPT !.reads = @ - 1]
        /\ LET out == check_rate_limit(request_timestamps, now, is_write) IN
           /\ request_timestamps' = out.timestamps
           /\ response' = [op |-> "check_rate_limit",
                           status |-> IF out.raised THEN "rate_limited"
                                      ELSE "admitted",
                           is_write |-> is_write]
           /\ calls' = Append(calls, [ts |-> now, is_write |-> is_write,
                                      accepted |-> ~out.raised])
        /\ UNCHANGED <<backend, now, session>>

\* time.time() is seen to have advanced.
Tick ==
    /\ now + TickSeconds <= MaxTime
    /\ now' = now + TickSeconds
    /\ UNCHANGED <<backend, response, request_timestamps, pending, calls,
                   session>>

-----------------------------------------------------------------------------
(* The rate limiter of a server that has just started *)

InitLimiter ==
    /\ request_timestamps = <<>>
    /\ now = 0
    /\ pending = [reads |-> 0, writes |-> 0]
    /\ calls = <<>>

\* No credential is cached when the server starts.
InitSession ==
    /\ current_user = NoUser
    /\ token_expires_at = 0

\* Specification of the rate limiter: the tables play no part.
InitRateLimit ==
    /\ desktops = <<>>
    /\ notes = <<>>
    /\ folders = <<>>
    /\ connections = <<>>
    /\ assets = <<>>
    /\ response = NoResponse
    /\ InitLimiter
    /\ InitSession
    /\ workspaces = LiveWorkspaces

NextRateLimit ==
    \/ Arrive
    \/ CheckRateLimit
    \/ Tick

SpecRateLimit == InitRateLimit /\ [][NextRateLimit]_vars

-----------------------------------------------------------------------------
(* Specification of the hierarchy builders *)

InitHierarchy ==
    /\ IsDesktopTable(desktops)
    /\ notes = <<>>
    /\ folders = <<>>
    /\ connections = <<>>
    /\ assets = <<>>
    /\ response = NoResponse
    /\ InitLimiter
    /\ InitSession
    /\ workspaces = LiveWorkspaces

NextHierarchy ==
    \/ GetDesktopHierarchy
    \/ GetWorkspaceIndex
    \/ Deliver

SpecHierarchy == InitHierarchy /\ [][NextHierarchy]_vars

-----------------------------------------------------------------------------
(* Specification of the two searches *)

\* Up to two root desktops, of any workspace, and up to NNotes notes on them
\* (notes.desktop_id is a foreign key on desktops.id), each matching the
\* query on its title, its content, both or neither.
InitSearch ==
    /\ \E nd \in 0..2 :
          \E w \in [1..nd -> WorkspaceIds] :
             /\ desktops = [i \in 1..nd |->
                              [id |-> i, workspace_id |-> w[i],
                               parent_id |-> None, position_order |-> i]]
             /\ \E n \in 0..(IF nd = 0 THEN 0 ELSE NNotes) :
                   \E d \in [1..n -> 1..nd],
                      tm \in [1..n -> BOOLEAN],
                      cm \in [1..n -> BOOLEAN] :
                         notes = [i \in 1..n |->
                                    [id |-> i, desktop_id |-> d[i],
                                     title_match |-> tm[i],
                                     content_match |-> cm[i]]]
    /\ folders = <<>>
    /\ connections = <<>>
    /\ assets = <<>>
    /\ response = NoResponse
    /\ InitLimiter
    /\ InitSession
    /\ workspaces = LiveWorkspaces

NextSearch ==
    \/ SearchNotes
    \/ ApiSearch
    \/ Deliver

SpecSearch == InitSearch /\ [][NextSearch]_vars

-----------------------------------------------------------------------------
(* Specification of the graph traversal *)

\* The notes the caller can read: n notes on the one desktop.
GraphNotes(n) ==
    [i \in 1..n |-> [id |-> i, desktop_id |-> 1,
                     title_match |-> FALSE, content_match |-> FALSE]]

\* A linear chain of len notes: connection i joins note i and note i + 1, in
\* the direction forward[i] says.
NoteChain(len, forward) ==
    [i \in 1..(len - 1) |->
        [id |-> i, desktop_id |-> 1,
         from_note_id |-> IF forward[i] THEN i ELSE i + 1,
         to_note_id |-> IF forward[i] THEN i + 1 ELSE i]]

\* A table of connections given as pairs <<from_note_id, to_note_id>>.
ConnTable(pairs) ==
    [i \in 1..Len(pairs) |->
        [id |-> i, desktop_id |-> 1,
         from_note_id |-> pairs[i][1], to_note_id |-> pairs[i][2]]]

\* Three notes on a directed cycle.
TriangleTable == ConnTable(<< <<1, 2>>, <<2, 3>>, <<3, 1>> >>)

\* A self loop, two notes connected both ways, and a third note pointing at
\* one of them.
LoopAndBackTable == ConnTable(<< <<1, 1>>, <<1, 2>>, <<2, 1>>, <<3, 2>> >>)

\* Any table of up to MaxConns connections among NGraphNotes notes (self
\* loops and parallel connections included) or one of the two tables above,
\* of which the caller can read all notes or all but the last; or a linear
\* chain of notes, all readable.
InitGraph ==
    /\ desktops = << [id |-> 1, workspace_id |-> "W1", parent_id |-> None,
                      position_order |-> 0] >>
    /\ folders = <<>>
    /\ assets = <<>>
    /\ response = NoResponse
    /\ InitLimiter
    /\ InitSession
    /\ workspaces = LiveWorkspaces
    /\ \/ /\ \/ \E m \in 0..MaxConns :
                   \E f \in [1..m -> 1..NGraphNotes],
                      t \in [1..m -> 1..NGraphNotes] :
                         connections = [i \in 1..m |->
                                           [id |-> i, desktop_id |-> 1,
                                            from_note_id |-> f[i],
                                            to_note_id |-> t[i]]]
             \/ connections = TriangleTable
             \/ connections = LoopAndBackTable
          /\ \E n \in (NGraphNotes - 1)..NGraphNotes : notes = GraphNotes(n)
       \/ \E len \in (NGraphNotes + 1)..MaxNoteChain :
             /\ notes = GraphNotes(len)
             /\ \E forward \in [1..(len - 1) -> BOOLEAN] :
                   connections = NoteChain(len, forward)

NextGraph ==
    \/ FindConnectedNotes
    \/ Deliver

SpecGraph == InitGraph /\ [][NextGraph]_vars

-----------------------------------------------------------------------------
(* Specification of the aggregations: stats and index over filled tables *)

PlainNote(i, did) ==
    [id |-> i, desktop_id |-> did, title_match |-> FALSE, content_match |-> FALSE]

\* Up to NAggDesk desktops of any workspace, each a root or nested in a
\* desktop stored before it; up to NAggNotes notes on them; up to NAggAssets
\* assets on the notes (assets.note_id is a foreign key on notes.id); at most
\* one folder; at most one connection, between two notes of one desktop.
IsGeneralAggregate ==
    \E nd \in 0..NAggDesk :
      \E w \in [1..nd -> WorkspaceIds], p \in [1..nd -> 0..nd] :
        /\ \A i \in 1..nd : p[i] < i
        /\ desktops = [i \in 1..nd |->
                         [id |-> i, workspace_id |-> w[i],
                          parent_id |-> IF p[i] = 0 THEN None ELSE p[i],
                          position_order |-> 0]]
        /\ \E nn \in 0..(IF nd = 0 THEN 0 ELSE NAggNotes) :
              \E d \in [1..nn -> 1..nd] :
                /\ notes = [i \in 1..nn |-> PlainNote(i, d[i])]
                /\ \E na \in 0..(IF nn = 0 THEN 0 ELSE NAggAssets) :
                      \E n \in [1..na -> 1..nn] :
                        assets = [i \in 1..na |-> [id |-> i, note_id |-> n[i]]]
                /\ \E f \in 0..nd :
                      folders = IF f = 0 THEN <<>>
                                ELSE <<[id |-> 1, desktop_id |-> f]>>
                /\ \E c \in BOOLEAN :
                      /\ c => nn >= 2 /\ d[1] = d[2]
                      /\ connections =
                            IF c THEN <<[id |-> 1, desktop_id |-> d[1],
                                         from_note_id |-> 1, to_note_id |-> 2]>>
                            ELSE <<>>

\* Workspace W1 holds Root with the children A and B, a note on each, a
\* folder on Root and an asset on the note of A; workspace W2 holds one
\* desktop with a note bearing two assets.
IsRootWithTwoChildren ==
    LET Row(i, w, q) ==
            [id |-> i, workspace_id |-> w, parent_id |-> q, position_order |-> 0]
    IN  /\ desktops = << Row(1, "W1", None), Row(2, "W1", 1),
                         Row(3, "W1", 1),    Row(4, "W2", None) >>
        /\ notes = << PlainNote(1, 1), PlainNote(2, 2), PlainNote(3, 3),
                      PlainNote(4, 4) >>
        /\ assets = << [id |-> 1, note_id |-> 2], [id |-> 2, note_id |-> 4],
                       [id |-> 3, note_id |-> 4] >>
        /\ folders = << [id |-> 1, desktop_id |-> 1] >>
        /\ connections = <<>>

\* Workspace W1 holds a root with a note, and two desktops that name each
\* other as parent, a note on each; a folder lies on one of the two.
IsCycleBesideRoot ==
    LET Row(i, w, q) ==
            [id |-> i, workspace_id |-> w, parent_id |-> q, position_order |-> 0]
    IN  /\ desktops = << Row(1, "W1", None), Row(2, "W1", 3), Row(3, "W1", 2) >>
        /\ notes = << PlainNote(1, 1), PlainNote(2, 2), PlainNote(3, 3) >>
        /\ assets = << [id |-> 1, note_id |-> 2] >>
        /\ folders = << [id |-> 1, desktop_id |-> 2] >>
        /\ connections = <<>>

InitAggregate ==
    /\ IsGeneralAggregate \/ IsRootWithTwoChildren \/ IsCycleBesideRoot
    /\ response = NoResponse
    /\ InitLimiter
    /\ InitSession
    /\ workspaces = LiveWorkspaces

NextAggregate ==
    \/ GetWorkspaceStats
    \/ GetWorkspaceIndex
    \/ Deliver

SpecAggregate == InitAggregate /\ [][NextAggregate]_vars

-----------------------------------------------------------------------------
(* AuthManager.authenticate *)

\* Mutant: the cached credential is still used at the second the margin
\* begins.
CacheValid_AtMargin(user, expires_at, t) ==
    user # NoUser /\ t <= expires_at - ExpiryMargin

\* `self._current_user and time.time() < self._token_expires_at - 60`
CacheValid(user, expires_at, t) ==
    user # NoUser /\ t < expires_at - ExpiryMargin

\* What self.supabase.auth.refresh_session(...) may do at time t: raise,
\* answer without a session, or answer with a session whose expires_at is
\* missing or lies one of two lifetimes ahead.
RefreshOutcomes(t) ==
    {[raised |-> TRUE, session |-> FALSE, expires_at |-> None],
     [raised |-> FALSE, session |-> FALSE, expires_at |-> None],
     [raised |-> FALSE, session |-> TRUE, expires_at |-> None],
     [raised |-> FALSE, session |-> TRUE, expires_at |-> t + ShortLifetime],
     [raised |-> FALSE, session |-> TRUE, expires_at |-> t + LongLifetime]}

\* `session.expires_at or 0`
ExpiresAtOr0(expires_at) == IF expires_at = None THEN 0 ELSE expires_at

\* The access token of the next session: the backend never issues one twice.
NextAccessToken ==
    IF current_user = NoUser THEN 1 ELSE current_user[1].access_token + 1

\* authenticate(), whole: the cached user if it is still good, otherwise a
\* refresh, whose failure of either kind leaves the handler through the
\* except clause before anything was assigned.
Authenticate ==
    \E outcome \in RefreshOutcomes(now) :
        /\ response = NoResponse
        /\ NextAccessToken <= MaxTokens
        /\ IF CacheValid(current_user, token_expires_at, now)
           THEN /\ response' = [op |-> "authenticate", status |-> "ok",
                                refresh_called |-> FALSE,
                                user |-> current_user]
                /\ UNCHANGED session
           ELSE IF outcome.raised \/ ~outcome.session
           THEN /\ response' = [op |-> "authenticate",
                                status |-> "authentication_error",
                                refresh_called |-> TRUE, user |-> NoUser]
                /\ UNCHANGED session
           ELSE /\ current_user' =
                     <<[access_token |-> NextAccessToken,
                        expires_at |-> ExpiresAtOr0(outcome.expires_at)]>>
                /\ token_expires_at' = ExpiresAtOr0(outcome.expires_at)
                /\ response' = [op |-> "authenticate", status |-> "ok",
                                refresh_called |-> TRUE,
                                user |-> current_user']
        /\ UNCHANGED <<backend, limiter>>

\* Specification of the credential cache: the tables play no part.
InitAuth ==
    /\ desktops = <<>>
    /\ notes = <<>>
    /\ folders = <<>>
    /\ connections = <<>>
    /\ assets = <<>>
    /\ response = NoResponse
    /\ InitLimiter
    /\ InitSession
    /\ workspaces = LiveWorkspaces

NextAuth ==
    \/ Authenticate
    \/ Deliver
    \/ Tick

SpecAuth == InitAuth /\ [][NextAuth]_vars

-----------------------------------------------------------------------------
(* The read tools from their first statement: check_rate_limit(is_write=False)
   comes before the validation of the identifier and before any query. *)

\* The ValueError of check_rate_limit as the response of a tool.
RateLimited(op) == [op |-> op, status |-> "rate_limited", queries |-> <<>>]

\* The handler of get_workspace_index, whole.
RequestWorkspaceIndex ==
    \E wid \in RequestWorkspaceIds :
        /\ response = NoResponse
        /\ LET out == check_rate_limit(request_timestamps, now, FALSE) IN
           /\ request_timestamps' = out.timestamps
           /\ response' = IF out.raised THEN RateLimited("get_workspace_index")
                           ELSE get_workspace_index(wid)
        /\ UNCHANGED <<backend, now, pending, calls, session>>

\* The handler of find_connected_notes, whole.
RequestConnectedNotes ==
    \E note_id \in RequestNoteIds, depth \in 1..MaxDepthArg :
        /\ response = NoResponse
        /\ LET out == check_rate_limit(request_timestamps, now, FALSE) IN
           /\ request_timestamps' = out.timestamps
           /\ response' = IF out.raised THEN RateLimited("find_connected_notes")
                           ELSE find_connected_notes(note_id, depth)
        /\ UNCHANGED <<backend, now, pending, calls, session>>

\* Specification of the read tools behind the rate limiter: one desktop of
\* workspace W1 holding two connected notes.
InitRequests ==
    /\ desktops = <<[id |-> 1, workspace_id |-> "W1", parent_id |-> None,
                     position_order |-> 0]>>
    /\ notes = GraphNotes(2)
    /\ folders = <<>>
    /\ connections = <<[id |-> 1, desktop_id |-> 1, from_note_id |-> 1,
                       to_note_id |-> 2]>>
    /\ assets = <<>>
    /\ response = NoResponse
    /\ InitLimiter
    /\ InitSession
    /\ workspaces = LiveWorkspaces

NextRequests ==
    \/ RequestWorkspaceIndex
    \/ RequestConnectedNotes
    \/ Deliver
    \/ Tick

SpecRequests == InitRequests /\ [][NextRequests]_vars

-----------------------------------------------------------------------------
(* create_connection *)

\* `from_note_id == to_note_id`
IsSelfConnection(from_note_id, to_note_id) == from_note_id = to_note_id

\* client.table("notes").select("id").eq("desktop_id", desktop_id)
\*       .in_("id", [from_note_id, to_note_id]).execute(), then
\* `len(notes.data or []) != 2`
BothNotesInDesktop(desktop_id, from_note_id, to_note_id) ==
    Len(SelectSeq(notes, LAMBDA n : /\ n.desktop_id = desktop_id
                                     /\ n.id \in {from_note_id, to_note_id})) = 2

\* Mutant: the lookup of an existing connection finds nothing.
ConnectionExists_Never(from_note_id, to_note_id) == FALSE

\* client.table("connections").select("id").eq("from_note_id", from_note_id)
\*       .eq("to_note_id", to_note_id).execute(), then `existing.data`
ConnectionExists(from_note_id, to_note_id) ==
    \E i \in 1..Len(connections) :
        /\ connections[i].from_note_id = from_note_id
        /\ connections[i].to_note_id = to_note_id

\* What create_connection(desktop_id, from_note_id, to_note_id) does once the
\* rate limiter has admitted it: the ValueError it raises, or "ok" when it
\* inserts the row.
create_connection(desktop_id, from_note_id, to_note_id) ==
    IF \/ IsMalformedNoteId(desktop_id)
       \/ IsMalformedNoteId(from_note_id)
       \/ IsMalformedNoteId(to_note_id)
    THEN "invalid"
    ELSE IF IsSelfConnection(from_note_id, to_note_id) THEN "self_connection"
    ELSE IF ~BothNotesInDesktop(desktop_id, from_note_id, to_note_id)
    THEN "not_in_desktop"
    ELSE IF ConnectionExists(from_note_id, to_note_id) THEN "exists"
    ELSE "ok"

\* The ids a create_connection request may carry for a desktop or a note: a
\* stored row, an id naming none, or a malformed id.
ConnRequestDesktopIds == (1..(Len(desktops) + 1)) \cup {BadNoteId}
ConnRequestNoteIds == (1..(Len(notes) + 1)) \cup {BadNoteId}

\* The handler of create_connection, from its first statement
\* check_rate_limit(is_write=True) to its return.  Nothing in it is awaited
\* but get_authenticated_client, which does not suspend, so it runs to its
\* end before any other handler.  The backend gives the new row the next id.
CreateConnection ==
    \E desktop_id \in ConnRequestDesktopIds,
       from_note_id \in ConnRequestNoteIds, to_note_id \in ConnRequestNoteIds :
        /\ response = NoResponse
        /\ LET out == check_rate_limit(request_timestamps, now, TRUE)
               status == IF out.raised THEN "rate_limited"
                         ELSE create_connection(desktop_id, from_note_id,
                                                to_note_id)
           IN  /\ request_timestamps' = out.timestamps
               /\ connections' =
                     IF status = "ok"
                     THEN Append(connections,
                                 [id |-> Len(connections) + 1,
                                  desktop_id |-> desktop_id,
                                  from_note_id |-> from_note_id,
                                  to_note_id |-> to_note_id])
                     ELSE connections
               /\ response' = [op |-> "create_connection", status |-> status,
                               desktop_id |-> desktop_id,
                               from_note_id |-> from_note_id,
                               to_note_id |-> to_note_id]
        /\ UNCHANGED <<workspaces, desktops, notes, folders, assets, now, pending,
                       calls, session>>

\* Specification of create_connection: two desktops, NConnNotes notes on the
\* first and one on the second, and no connection yet.
InitConnections ==
    /\ desktops = [i \in 1..2 |-> [id |-> i, workspace_id |-> "W1",
                                    parent_id |-> None, position_order |-> i]]
    /\ notes = [i \in 1..(NConnNotes + 1) |->
                  PlainNote(i, IF i <= NConnNotes THEN 1 ELSE 2)]
    /\ folders = <<>>
    /\ connections = <<>>
    /\ assets = <<>>
    /\ response = NoResponse
    /\ InitLimiter
    /\ InitSession
    /\ workspaces = LiveWorkspaces

NextConnections ==
    \/ CreateConnection
    \/ Deliver
    \/ Tick

SpecConnections == InitConnections /\ [][NextConnections]_vars

-----------------------------------------------------------------------------
(* The delete tools *)

\* .eq("id", row_id) on a table: the rows it matches.
MatchedById(table, row_id) == SelectSeq(table, LAMBDA r : r.id = row_id)

\* .delete().eq("id", row_id).execute() on a table: the rows left.
DeleteById(table, row_id) == SelectSeq(table, LAMBDA r : r.id # row_id)

\* The ids of the rows of a table.
RowIds(table) == { table[i].id : i \in 1..Len(table) }

\* ON DELETE CASCADE: the rows that go when their desktop or their note goes.
CascadeFromDesktops(table) ==
    SelectSeq(table, LAMBDA r : r.desktop_id \in RowIds(desktops'))

CascadeAssetsFromNotes ==
    SelectSeq(assets, LAMBDA a : a.note_id \in RowIds(notes'))

CascadeConnectionsFromNotes(table) ==
    SelectSeq(table, LAMBDA c : /\ c.from_note_id \in RowIds(notes')
                                /\ c.to_note_id \in RowIds(notes'))

\* Ids a delete request may carry for a row: a stored row, a well-formed id
\* naming none, and a malformed one.
DeleteRequestIds == (1..(NDeleteRows + 1)) \cup {BadNoteId}

\* What a delete tool answers; matched is the number of rows its id matched
\* when the call was made.
DeleteResponse(op, status, matched) ==
    [op |-> op, status |-> status, matched |-> matched]

\* Mutant: a delete that matched no row is reported as a missing row.
DeletedStatus_NotFoundOnZero(matched) ==
    IF matched = 0 THEN "not_found" ELSE "ok"

\* The tools that return their message whatever the delete did.
DeletedStatus(matched) == "ok"

\* The first statements of every delete tool: check_rate_limit(is_write=True)
\* and the test of the id.  "go" when the tool goes on to the backend.
DeletePrologue(malformed) ==
    LET out == check_rate_limit(request_timestamps, now, TRUE) IN
    [timestamps |-> out.timestamps,
     status |-> IF out.raised THEN "rate_limited"
                ELSE IF malformed THEN "invalid" ELSE "go"]

\* delete_workspace, whole: a soft delete, which raises when the update
\* returned no row.
DeleteWorkspace ==
    \E workspace_id \in RequestWorkspaceIds :
        /\ response = NoResponse
        /\ LET pro == DeletePrologue(IsMalformed(workspace_id))
               matched == Len(MatchedById(workspaces, workspace_id))
           IN  /\ request_timestamps' = pro.timestamps
               /\ IF pro.status = "go"
                  THEN /\ workspaces' =
                            [i \in 1..Len(workspaces) |->
                               IF workspaces[i].id = workspace_id
                               THEN [workspaces[i] EXCEPT !.deleted_at = <<now>>]
                               ELSE workspaces[i]]
                       /\ response' =
                            DeleteResponse("delete_workspace",
                                IF matched = 0 THEN "not_found" ELSE "ok",
                                matched)
                  ELSE /\ workspaces' = workspaces
                       /\ response' = DeleteResponse("delete_workspace",
                                                     pro.status, matched)
        /\ UNCHANGED <<desktops, notes, folders, connections, assets, now,
                       pending, calls, session>>

\* delete_desktop, whole.
DeleteDesktop ==
    \E desktop_id \in DeleteRequestIds :
        /\ response = NoResponse
        /\ LET pro == DeletePrologue(IsMalformedNoteId(desktop_id))
               matched == Len(MatchedById(desktops, desktop_id))
           IN  /\ request_timestamps' = pro.timestamps
               /\ desktops' = IF pro.status = "go"
                              THEN DeleteById(desktops, desktop_id)
                              ELSE desktops
               /\ notes' = CascadeFromDesktops(notes)
               /\ folders' = CascadeFromDesktops(folders)
               /\ assets' = CascadeAssetsFromNotes
               /\ connections' = CascadeConnectionsFromNotes(
                                     CascadeFromDesktops(connections))
               /\ response' =
                    DeleteResponse("delete_desktop",
                        IF pro.status = "go" THEN DeletedStatus(matched)
                        ELSE pro.status, matched)
        /\ UNCHANGED <<workspaces, now, pending, calls, session>>

\* delete_note, whole.
DeleteNote ==
    \E note_id \in DeleteRequestIds :
        /\ response = NoResponse
        /\ LET pro == DeletePrologue(IsMalformedNoteId(note_id))
               matched == Len(MatchedById(notes, note_id))
           IN  /\ request_timestamps' = pro.timestamps
               /\ notes' = IF pro.status = "go"
                           THEN DeleteById(notes, note_id) ELSE notes
               /\ assets' = CascadeAssetsFromNotes
               /\ connections' = CascadeConnectionsFromNotes(connections)
               /\ response' =
                    DeleteResponse("delete_note",
                        IF pro.status = "go" THEN DeletedStatus(matched)
                        ELSE pro.status,
                        matched)
        /\ UNCHANGED <<workspaces, desktops, folders, now, pending, calls, session>>

\* delete_folder, whole.
DeleteFolder ==
    \E folder_id \in DeleteRequestIds :
        /\ response = NoResponse
        /\ LET pro == DeletePrologue(IsMalformedNoteId(folder_id))
               matched == Len(MatchedById(folders, folder_id))
           IN  /\ request_timestamps' = pro.timestamps
               /\ folders' = IF pro.status = "go"
                             THEN DeleteById(folders, folder_id) ELSE folders
               /\ response' =
                    DeleteResponse("delete_folder",
                        IF pro.status = "go" THEN DeletedStatus(matched)
                        ELSE pro.status,
                        matched)
        /\ UNCHANGED <<workspaces, desktops, notes, connections, assets, now,
                       pending, calls, session>>

\* delete_connection, whole.
DeleteConnection ==
    \E connection_id \in DeleteRequestIds :
        /\ response = NoResponse
        /\ LET pro == DeletePrologue(IsMalformedNoteId(connection_id))
               matched == Len(MatchedById(connections, connection_id))
           IN  /\ request_timestamps' = pro.timestamps
               /\ connections' = IF pro.status = "go"
                                 THEN DeleteById(connections, connection_id)
                                 ELSE connections
               /\ response' =
                    DeleteResponse("delete_connection",
                        IF pro.status = "go" THEN DeletedStatus(matched)
                        ELSE pro.status,
                        matched)
        /\ UNCHANGED <<workspaces, desktops, notes, folders, assets, now,
                       pending, calls, session>>

\* delete_asset, whole: the asset is read with .single() before it is
\* deleted.  On no row the client library either raises its own error or
\* hands back no data, which the tool turns into its ValueError; the file in
\* storage is outside the tables.
DeleteAsset ==
    \E asset_id \in DeleteRequestIds, single_raises \in BOOLEAN :
        /\ response = NoResponse
        /\ LET pro == DeletePrologue(IsMalformedNoteId(asset_id))
               matched == Len(MatchedById(assets, asset_id))
               found == pro.status = "go" /\ matched > 0
           IN  /\ request_timestamps' = pro.timestamps
               /\ assets' = IF found THEN DeleteById(assets, asset_id)
                            ELSE assets
               /\ response' =
                    DeleteResponse("delete_asset",
                        IF pro.status # "go" THEN pro.status
                        ELSE IF found THEN "ok"
                        ELSE IF single_raises THEN "api_error"
                        ELSE "not_found",
                        matched)
        /\ UNCHANGED <<workspaces, desktops, notes, folders, connections, now,
                       pending, calls, session>>

\* Specification of the delete tools: two workspaces, NDeleteRows desktops
\* of the first, a note on each desktop, a folder on each desktop, a
\* connection on each desktop from its note to the note of the first, and an
\* asset on each note.
InitDelete ==
    /\ workspaces = LiveWorkspaces
    /\ desktops = [i \in 1..NDeleteRows |->
                     [id |-> i, workspace_id |-> "W1", parent_id |-> None,
                      position_order |-> i]]
    /\ notes = [i \in 1..NDeleteRows |-> PlainNote(i, i)]
    /\ folders = [i \in 1..NDeleteRows |-> [id |-> i, desktop_id |-> i]]
    /\ connections = [i \in 1..NDeleteRows |->
                        [id |-> i, desktop_id |-> i, from_note_id |-> i,
                         to_note_id |-> 1]]
    /\ assets = [i \in 1..NDeleteRows |-> [id |-> i, note_id |-> i]]
    /\ response = NoResponse
    /\ InitLimiter
    /\ InitSession

NextDelete ==
    \/ DeleteWorkspace
    \/ DeleteDesktop
    \/ DeleteNote
    \/ DeleteFolder
    \/ DeleteConnection
    \/ DeleteAsset
    \/ Deliver
    \/ Tick

SpecDelete == InitDelete /\ [][NextDelete]_vars

-----------------------------------------------------------------------------
(* sendell_init and sendell_context *)

\* A desktop name is a sequence of symbols: the literal text of
\* SENDELL_DESKTOP_NAMES[key] is one symbol, the dash between two spaces that
\* follows it is one symbol (written " - " here), and every character of the
\* instance name is one symbol.
SENDELL_DESKTOP_NAMES ==
    [hub |-> "Sendell Hub", conversations |-> "Conversations",
     knowledge |-> "Knowledge Base", tasks |-> "Tasks & Calendar",
     system |-> "System"]

\* f"{SENDELL_DESKTOP_NAMES['hub']} - {instance_name}"
_hub_name(instance_name) ==
    <<SENDELL_DESKTOP_NAMES.hub, " - ">> \o instance_name

\* f"{SENDELL_DESKTOP_NAMES[key]} - {instance_name}"
_sub_name(key, instance_name) ==
    <<SENDELL_DESKTOP_NAMES[key], " - ">> \o instance_name

\* child_keys = ["conversations", "knowledge", "tasks", "system"]
child_keys == <<"conversations", "knowledge", "tasks", "system">>

\* The instance names and instance ids a request may carry.  In a LIKE
\* pattern "_" stands for any one character and a backslash takes the
\* character after it literally.
InstanceNames == {<<"a">>, <<"A">>, <<"b">>, <<"_">>, <<"\\", "b">>}
InstanceIds == {<<"a">>, <<"i">>, <<"j">>}

\* str.lower() and the case folding of ILIKE, symbol by symbol.
LowerSymbol(c) ==
    IF c = "A" THEN "a"
    ELSE IF c = SENDELL_DESKTOP_NAMES.hub THEN "sendell hub"
    ELSE c

Lower(name) == [i \in 1..Len(name) |-> LowerSymbol(name[i])]

\* SQL `s LIKE p`: "%" is any run of characters, "_" any one character, a
\* backslash makes the next character of the pattern literal.
RECURSIVE LikeMatch(_, _)
LikeMatch(str, pat) ==
    IF pat = <<>> THEN str = <<>>
    ELSE IF Head(pat) = "%"
    THEN LikeMatch(str, Tail(pat))
         \/ (str # <<>> /\ LikeMatch(Tail(str), pat))
    ELSE IF Head(pat) = "_"
    THEN str # <<>> /\ LikeMatch(Tail(str), Tail(pat))
    ELSE IF Head(pat) = "\\" /\ Len(pat) > 1
    THEN str # <<>> /\ Head(str) = pat[2]
         /\ LikeMatch(Tail(str), Tail(Tail(pat)))
    ELSE str # <<>> /\ Head(str) = Head(pat)
         /\ LikeMatch(Tail(str), Tail(pat))

\* .ilike("name", pattern)
ILike(name, pattern) == LikeMatch(Lower(name), Lower(pattern))

\* `needle in haystack` on strings.
Contains(haystack, needle) ==
    \E i \in 0..(Len(haystack) - Len(needle)) :
        \A j \in 1..Len(needle) : haystack[i + j] = needle[j]

\* The default workspace of the user: _get_default_workspace_id.
DefaultWorkspaceId == "W1"

\* _get_next_position_order(client, workspace_id)
_get_next_position_order(workspace_id) ==
    LET rows == SelectSeq(desktops, LAMBDA d : d.workspace_id = workspace_id)
    IN  IF rows = <<>> THEN 0
        ELSE LET top == CHOOSE i \in 1..Len(rows) :
                            \A j \in 1..Len(rows) :
                                rows[j].position_order <= rows[i].position_order
             IN  rows[top].position_order + 1

\* child_map.get(name) for child_map = {d["name"]: d["id"] for d in children}:
\* the last child of that name, or None.
ChildMapGet(children, name) ==
    LET named == SelectSeq(children, LAMBDA d : d.name = name)
    IN  IF named = <<>> THEN None ELSE named[Len(named)].id

\* The "sendell_hub" part of what sendell_init returns.
SendellHub(hub_id, conversations, knowledge, tasks, system) ==
    [desktop_id |-> hub_id, conversations_desktop_id |-> conversations,
     knowledge_desktop_id |-> knowledge, tasks_desktop_id |-> tasks,
     system_desktop_id |-> system]

\* `existing`: the desktops of the workspace whose name is ILIKE hub_name.
ExistingHubs(workspace_id, hub_name) ==
    SelectSeq(desktops, LAMBDA d : /\ d.workspace_id = workspace_id
                                   /\ ILike(d.name, hub_name))

\* The hubs stored: the desktops sendell_init inserted as roots.
StoredHubs ==
    SelectSeq(desktops, LAMBDA d : d.name[1] = SENDELL_DESKTOP_NAMES.hub)

\* sendell_init, whole.  A client may call again as soon as it has the
\* answer of its last call.
SendellInit ==
    \E instance_id \in InstanceIds, instance_name \in InstanceNames :
        /\ response.op \in {"none", "sendell_init"}
        /\ LET workspace_id == DefaultWorkspaceId
               hub_name == _hub_name(instance_name)
               existing == ExistingHubs(workspace_id, hub_name)
           IN
           IF existing # <<>>
           THEN LET hub_id == existing[1].id
                    children ==
                        SelectSeq(desktops,
                                  LAMBDA d : /\ d.workspace_id = workspace_id
                                             /\ d.parent_id = hub_id)
                    get(key) ==
                        ChildMapGet(children, _sub_name(key, instance_name))
                IN  /\ response' =
                         [op |-> "sendell_init",
                          status |-> "already_initialized",
                          instance_id |-> instance_id,
                          instance_name |-> instance_name,
                          sendell_hub |->
                              SendellHub(hub_id, get("conversations"),
                                         get("knowledge"), get("tasks"),
                                         get("system"))]
                    /\ UNCHANGED <<desktops, folders, notes>>
           ELSE LET pos == _get_next_position_order(workspace_id)
                    hub_id == Len(desktops) + 1
                    child_id(i) == hub_id + i
                IN  /\ Len(StoredHubs) < MaxHubs
                    /\ desktops' =
                         desktops
                         \o <<[id |-> hub_id, workspace_id |-> workspace_id,
                               name |-> hub_name, parent_id |-> None,
                               position_order |-> pos]>>
                         \o [i \in 1..Len(child_keys) |->
                                [id |-> child_id(i),
                                 workspace_id |-> workspace_id,
                                 name |-> _sub_name(child_keys[i],
                                                    instance_name),
                                 parent_id |-> hub_id,
                                 position_order |-> pos + 1 + (i - 1)]]
                    /\ folders' =
                         folders
                         \o [i \in 1..Len(child_keys) |->
                                [id |-> Len(folders) + i,
                                 desktop_id |-> hub_id,
                                 target_desktop_id |-> child_id(i),
                                 name |-> SENDELL_DESKTOP_NAMES[child_keys[i]]]]
                    /\ notes' =
                         Append(notes,
                                [id |-> Len(notes) + 1,
                                 desktop_id |-> child_id(4),
                                 title |-> <<"Instance Config", " - ">>
                                           \o instance_name,
                                 sendell_instance |-> instance_id,
                                 instance_name |-> instance_name])
                    /\ response' =
                         [op |-> "sendell_init", status |-> "initialized",
                          instance_id |-> instance_id,
                          instance_name |-> instance_name,
                          sendell_hub |->
                              SendellHub(hub_id, child_id(1), child_id(2),
                                         child_id(3), child_id(4))]
        /\ UNCHANGED <<workspaces, connections, assets, limiter, session>>

\* `hub_name.lower()` for hub_name = _hub_name(request.instance_id)
HubNeedle(instance_id) == Lower(_hub_name(instance_id))

\* The first desktop of the list whose lowered name holds the needle, in a
\* sequence of at most one row.
FirstHolding(desktop_list, needle) ==
    LET holding == SelectSeq(desktop_list,
                             LAMBDA d : Contains(Lower(d.name), needle))
    IN  IF holding = <<>> THEN <<>> ELSE <<holding[1]>>

\* The id of the last child whose lowered name holds one of the words; the
\* words are told by the literal symbol that holds them.
ChildHolding(children, key) ==
    LET holding == SelectSeq(children,
                             LAMBDA d : d.name[1] = SENDELL_DESKTOP_NAMES[key])
    IN  IF holding = <<>> THEN None ELSE holding[Len(holding)].id

\* sendell_context, whole: it writes nothing.  The lists of notes it returns
\* are left out of the response.
SendellContext ==
    \E instance_id \in InstanceIds :
        /\ response = NoResponse
        /\ LET workspace_id == DefaultWorkspaceId
               desktop_list ==
                   SelectSeq(desktops, LAMBDA d : d.workspace_id = workspace_id)
               by_id == FirstHolding(desktop_list, HubNeedle(instance_id))
               hub == IF by_id # <<>> THEN by_id
                      ELSE FirstHolding(desktop_list, <<"sendell hub">>)
           IN
           IF hub = <<>>
           THEN response' = [op |-> "sendell_context",
                             status |-> "not_initialized",
                             instance_id |-> instance_id]
           ELSE LET hub_id == hub[1].id
                    children == SelectSeq(desktop_list,
                                          LAMBDA d : d.parent_id = hub_id)
                IN  response' =
                      [op |-> "sendell_context", status |-> "ok",
                       instance_id |-> instance_id,
                       sendell_hub |->
                           [desktop_id |-> hub_id,
                            conversations_desktop_id |->
                                ChildHolding(children, "conversations"),
                            knowledge_desktop_id |->
                                ChildHolding(children, "knowledge"),
                            tasks_desktop_id |->
                                ChildHolding(children, "tasks")]]
        /\ UNCHANGED <<backend, limiter, session>>

\* Specification of the Sendell endpoints: the default workspace holds
\* nothing, or one desktop the user made.
InitSendell ==
    /\ workspaces = LiveWorkspaces
    /\ \/ desktops = <<>>
       \/ desktops = <<[id |-> 1, workspace_id |-> DefaultWorkspaceId,
                        name |-> <<"b">>, parent_id |-> None,
                        position_order |-> 0]>>
    /\ notes = <<>>
    /\ folders = <<>>
    /\ connections = <<>>
    /\ assets = <<>>
    /\ response = NoResponse
    /\ InitLimiter
    /\ InitSession

NextSendell ==
    \/ SendellInit
    \/ SendellContext
    \/ Deliver

SpecSendell == InitSendell /\ [][NextSendell]_vars

-----------------------------------------------------------------------------
(* The server as a whole: any of the table families, every handler *)

Init ==
    \/ InitHierarchy \/ InitSearch \/ InitGraph \/ InitAggregate
    \/ InitRateLimit \/ InitConnections \/ InitRequests
    \/ InitAuth \/ InitDelete \/ InitSendell

Next ==
    \/ GetDesktopHierarchy
    \/ GetWorkspaceIndex
    \/ GetWorkspaceStats
    \/ SearchNotes
    \/ ApiSearch
    \/ FindConnectedNotes
    \/ Deliver
    \/ Arrive
    \/ CheckRateLimit
    \/ Tick
    \/ CreateConnection
    \/ RequestWorkspaceIndex
    \/ RequestConnectedNotes
    \/ Authenticate
    \/ DeleteWorkspace
    \/ DeleteDesktop
    \/ DeleteNote
    \/ DeleteFolder
    \/ DeleteConnection
    \/ DeleteAsset
    \/ SendellInit
    \/ SendellContext

Spec == Init /\ [][Next]_vars

-----------------------------------------------------------------------------
(* What the hierarchy claims speak about *)

\* The row of the desktops table with this id (row i is stored at position i).
DesktopRow(id) == desktops[id]

\* The ids of the desktops the request fetched: those of its workspace.
FetchedIds(wid) ==
    { desktops[i].id : i \in { j \in 1..Len(desktops) :
                                 desktops[j].workspace_id = wid } }

\* The desktop reached from id by following parent_id n times (None once a
\* root was passed).
RECURSIVE AncestorAt(_, _)
AncestorAt(id, n) ==
    IF n = 0 \/ id = None THEN id
    ELSE AncestorAt(DesktopRow(id).parent_id, n - 1)

\* id lies on a parent_id cycle (a self-parented desktop is a cycle of one).
OnCycle(id) == \E n \in 1..Len(desktops) : AncestorAt(id, n) = id

\* id, or a desktop above it, names a parent that was not fetched.
UnderMissingParent(id, wid) ==
    \E n \in 0..Len(desktops) :
        LET a == AncestorAt(id, n) IN
        /\ a # None
        /\ DesktopRow(a).parent_id # None
        /\ DesktopRow(a).parent_id \notin FetchedIds(wid)

\* The number of parent_id steps from id up to its root.
DepthOf(id) == CHOOSE n \in 0..Len(desktops) : AncestorAt(id, n + 1) = None
                   /\ AncestorAt(id, n) # None

\* The desktop nodes of a tree in pre-order, each with the node it hangs under.
RECURSIVE TreeEntries(_, _)
TreeEntries(tree, under) ==
    IF tree = <<>> THEN <<>>
    ELSE <<[id |-> Head(tree).id, level |-> Head(tree).level, under |-> under]>>
         \o TreeEntries(Head(tree).children, Head(tree).id)
         \o TreeEntries(Tail(tree), under)

IsHierarchyResponse == response.op = "get_desktop_hierarchy"
IsIndexResponse == response.op = "get_workspace_index"

\* The request was well-formed and named an existing workspace where the
\* handler asks for one.
RequestAccepted ==
    /\ IsHierarchyResponse \/ IsIndexResponse
    /\ response.status \notin {"invalid", "not_found"}

\* The desktop entries of the last response of a hierarchy builder, in output
\* order: the flat list of get_desktop_hierarchy or the nodes of the tree of
\* get_workspace_index.
Entries ==
    IF IsHierarchyResponse THEN response.items
    ELSE IF IsIndexResponse THEN TreeEntries(response.tree, None)
    ELSE <<>>

EntryIds == { Entries[i].id : i \in 1..Len(Entries) }

\* The fetched list is one linear chain: one root, every desktop on a path
\* to it, no desktop with two children.
FetchedIsChain(wid) ==
    LET ids == FetchedIds(wid) IN
    /\ ids # {}
    /\ \A a \in ids : ~OnCycle(a) /\ ~UnderMissingParent(a, wid)
    /\ \A a, b \in ids : a # b => DesktopRow(a).parent_id # DesktopRow(b).parent_id

-----------------------------------------------------------------------------
(* C1 - C6: the hierarchy builders *)

\* C1: every desktop in the output of get_desktop_hierarchy or in the tree of
\* get_workspace_index carries level 0 if its parent_id is null, and otherwise
\* 1 plus the level carried by the output entry of its parent desktop (which
\* is in the output, and in the tree is the node it hangs under).
C1_LevelIsParentLevelPlusOne ==
    \A i \in 1..Len(Entries) :
        LET e == Entries[i]
            parent == DesktopRow(e.id).parent_id
        IN  IF parent = None THEN e.level = 0
            ELSE /\ \E j \in 1..Len(Entries) : Entries[j].id = parent
                 /\ \A j \in 1..Len(Entries) :
                        Entries[j].id = parent => e.level = 1 + Entries[j].level
                 /\ IsIndexResponse => e.under = parent

\* C1 witness: an index tree with two roots and a desktop two levels down.
C1_Witness ==
    /\ IsIndexResponse /\ response.status = "ok"
    /\ Len(response.tree) = 2
    /\ \E i \in 1..Len(Entries) : Entries[i].level = 2

\* C2: on any parent_id assignment, cycles and self-parents included, both
\* builders terminate (no RecursionError) and no desktop lying on a parent_id
\* cycle appears in the output.
C2_CyclesTerminateAndAreOmitted ==
    RequestAccepted =>
        /\ response.status = "ok"
        /\ \A id \in EntryIds : ~OnCycle(id)

\* C2 witness: the workspace holds a two-cycle A <-> B beside a true root, and
\* a builder returned the root.
C2_Witness ==
    /\ RequestAccepted /\ response.status = "ok"
    /\ Entries # <<>>
    /\ \E a, b \in FetchedIds(response.workspace_id) :
          /\ a # b
          /\ DesktopRow(a).parent_id = b
          /\ DesktopRow(b).parent_id = a

\* C2 witness of the other shape: a self-parented desktop beside a true root.
C2_SelfParentReached ==
    /\ RequestAccepted /\ response.status = "ok"
    /\ Entries # <<>>
    /\ \E a \in FetchedIds(response.workspace_id) : DesktopRow(a).parent_id = a

\* C3: get_desktop_hierarchy with max_depth = m on a linear chain of more than
\* m + 1 desktops returns, without error, exactly the m + 1 desktops at
\* levels 0 through m, outermost first.
C3_ChainCutAtMaxDepth ==
    ( /\ IsHierarchyResponse
      /\ response.status # "invalid"
      /\ FetchedIsChain(response.workspace_id)
      /\ Cardinality(FetchedIds(response.workspace_id)) > response.max_depth + 1 )
    =>
        /\ response.status = "ok"
        /\ Len(response.items) = response.max_depth + 1
        /\ \A i \in 1..Len(response.items) :
              /\ response.items[i].level = i - 1
              /\ DepthOf(response.items[i].id) = i - 1
        /\ \A id \in FetchedIds(response.workspace_id) :
              DepthOf(id) > response.max_depth => id \notin EntryIds

\* C3 witness: the chain of 15 with max_depth 10 gave levels 0..10.
C3_Witness ==
    /\ IsHierarchyResponse /\ response.status = "ok"
    /\ Len(desktops) = 15
    /\ FetchedIsChain(response.workspace_id)
    /\ response.max_depth = DefaultMaxDepth
    /\ Len(response.items) = 11

\* C4: no desktop node of the tree of get_workspace_index has a level above
\* the ceiling of 10.
C4_IndexTreeDepthCeiling ==
    IsIndexResponse =>
        \A i \in 1..Len(Entries) : Entries[i].level <= DefaultMaxDepth

\* C5: in the output of either builder the root desktops, and the children of
\* each desktop, appear in ascending position_order.
C5_SiblingsAscendByPosition ==
    \A i, j \in 1..Len(Entries) :
        ( /\ i < j
          /\ DesktopRow(Entries[i].id).parent_id
                = DesktopRow(Entries[j].id).parent_id )
        => DesktopRow(Entries[i].id).position_order
              <= DesktopRow(Entries[j].id).position_order

\* C5 witness: two siblings stored in descending position_order came out in
\* ascending order.
C5_Witness ==
    /\ RequestAccepted /\ response.status = "ok"
    /\ \E i, j \in 1..Len(Entries) :
          /\ i < j
          /\ Entries[i].id > Entries[j].id
          /\ DesktopRow(Entries[i].id).parent_id
                = DesktopRow(Entries[j].id).parent_id
          /\ DesktopRow(Entries[i].id).position_order
                < DesktopRow(Entries[j].id).position_order

\* C6: a desktop whose parent_id names a desktop that was not fetched appears
\* in neither output, nor does any desktop below it, and the request succeeds.
C6_MissingParentIsDropped ==
    RequestAccepted =>
        /\ response.status = "ok"
        /\ \A id \in EntryIds : ~UnderMissingParent(id, response.workspace_id)

\* C6 witness: a fetched desktop names a parent of another workspace, a second
\* fetched desktop hangs under it, and the builder returned the rest.
C6_Witness ==
    /\ RequestAccepted /\ response.status = "ok"
    /\ Entries # <<>>
    /\ \E a, b \in FetchedIds(response.workspace_id) :
          /\ DesktopRow(a).parent_id # None
          /\ DesktopRow(a).parent_id \notin FetchedIds(response.workspace_id)
          /\ DesktopRow(b).parent_id = a

-----------------------------------------------------------------------------
(* C7, C8: the merge of the title and content matches *)

IsSearchNotesResponse == response.op = "search_notes"
IsApiSearchResponse == response.op = "api_search"

\* A search that ran its merge, or returned early for want of desktops.
SearchAnswered ==
    /\ IsSearchNotesResponse \/ IsApiSearchResponse
    /\ response.status = "ok"

\* The limit the two queries and the final cut of the last search used.
EffectiveLimit ==
    IF IsSearchNotesResponse THEN ClampLimit(response.limit) ELSE response.limit

\* The ids of a list of notes, in list order.
IdsOf(rows) == [i \in 1..Len(rows) |-> rows[i].id]

\* The ids the title query and the content query of the last search returned.
TitleIds ==
    IdsOf(TitleResults(DesktopIdsOf(response.workspace_id), EffectiveLimit))
ContentIds ==
    IdsOf(ContentResults(DesktopIdsOf(response.workspace_id), EffectiveLimit))

SeqRange(seq) == { seq[i] : i \in 1..Len(seq) }

\* Each element of seq once, at the place of its first occurrence.
RECURSIVE FirstSeenOrder(_)
FirstSeenOrder(seq) ==
    IF seq = <<>> THEN <<>>
    ELSE LET before == FirstSeenOrder(SubSeq(seq, 1, Len(seq) - 1))
         IN  IF seq[Len(seq)] \in SeqRange(before) THEN before
             ELSE Append(before, seq[Len(seq)])

\* C7 as claimed: the merged output of search_notes and of api_search holds
\* each id appearing in the title results or the content results exactly
\* once, in first-seen order over title results followed by content results.
C7_MergedHoldsEveryIdOnce ==
    SearchAnswered =>
        IdsOf(response.results) = FirstSeenOrder(TitleIds \o ContentIds)

\* C7 as amended: the output is that first-seen sequence cut to its first
\* `limit` entries, so no id occurs twice, the order is first-seen, and every
\* id is present when there are at most `limit` distinct ids.
C7_MergedIsFirstSeenPrefix ==
    SearchAnswered =>
        /\ IdsOf(response.results)
              = Limit(FirstSeenOrder(TitleIds \o ContentIds), EffectiveLimit)
        /\ \A i, j \in 1..Len(response.results) :
              response.results[i].id = response.results[j].id => i = j
        /\ Cardinality(SeqRange(TitleIds) \cup SeqRange(ContentIds))
              <= EffectiveLimit
           => SeqRange(IdsOf(response.results))
                 = SeqRange(TitleIds) \cup SeqRange(ContentIds)

\* C7 witness: the two result lists overlap and hold more distinct ids than
\* the limit, and the search returned.
C7_Witness ==
    /\ SearchAnswered
    /\ SeqRange(TitleIds) \cap SeqRange(ContentIds) # {}
    /\ Cardinality(SeqRange(TitleIds) \cup SeqRange(ContentIds)) > EffectiveLimit
    /\ Len(response.results) = 2

\* C8: search_notes tags a returned note "title" exactly if its id is among
\* the title results and "content" exactly if it is among the content results
\* only; an id in both lists is returned once, tagged "title"; title ids
\* [A, B] and content ids [B, C] under a limit of 3 or more give exactly
\* [A(title), B(title), C(content)].
C8_TitleTagWins ==
    (IsSearchNotesResponse /\ response.status = "ok") =>
        /\ \A i \in 1..Len(response.results) :
              LET r == response.results[i] IN
              /\ r.match_type \in {"title", "content"}
              /\ r.match_type = "title" <=> r.id \in SeqRange(TitleIds)
              /\ r.match_type = "content" <=>
                    r.id \in SeqRange(ContentIds) \ SeqRange(TitleIds)
        /\ \A id \in SeqRange(TitleIds) \cap SeqRange(ContentIds) :
              /\ Cardinality({ i \in 1..Len(response.results) :
                                 response.results[i].id = id }) = 1
              /\ \A i \in 1..Len(response.results) :
                    response.results[i].id = id =>
                       response.results[i].match_type = "title"
        /\ ( /\ Len(TitleIds) = 2 /\ Len(ContentIds) = 2
             /\ TitleIds[2] = ContentIds[1]
             /\ ContentIds[2] \notin SeqRange(TitleIds)
             /\ EffectiveLimit >= 3 )
           => /\ IdsOf(response.results)
                    = <<TitleIds[1], TitleIds[2], ContentIds[2]>>
              /\ [i \in 1..3 |-> response.results[i].match_type]
                    = <<"title", "title", "content">>

\* C8 witness: title ids [A, B], content ids [B, C], three notes returned.
C8_Witness ==
    /\ IsSearchNotesResponse /\ response.status = "ok"
    /\ Len(TitleIds) = 2 /\ Len(ContentIds) = 2
    /\ TitleIds[2] = ContentIds[1]
    /\ ContentIds[2] \notin SeqRange(TitleIds)
    /\ Len(response.results) = 3

-----------------------------------------------------------------------------
(* C9, C10: the traversal of find_connected_notes *)

IsConnectedResponse == response.op = "find_connected_notes"

\* The caller can read the note with this id.
Resolvable(id) == \E i \in 1..Len(notes) : notes[i].id = id

AllEndpointsResolvable ==
    \A i \in 1..Len(connections) :
        /\ Resolvable(connections[i].from_note_id)
        /\ Resolvable(connections[i].to_note_id)

\* The depth the request runs with: the requested one brought into 1..5.
EffectiveDepth(depth) ==
    IF depth < 1 THEN 1 ELSE IF depth > 5 THEN 5 ELSE depth

\* The notes of set S and those one connection away from it, whichever way
\* the connection points.
OneHopAround(S) ==
    S \cup { connections[i].to_note_id :
               i \in { j \in 1..Len(connections) :
                         connections[j].from_note_id \in S } }
      \cup { connections[i].from_note_id :
               i \in { j \in 1..Len(connections) :
                         connections[j].to_note_id \in S } }

\* The notes at undirected hop distance at most k from start.
RECURSIVE Within(_, _)
Within(start, k) ==
    IF k = 0 THEN {start} ELSE OneHopAround(Within(start, k - 1))

\* C9: when every endpoint note is resolvable, connected_notes holds exactly
\* the notes at undirected hop distance 1 .. effective depth from the start
\* note, each once and never the start note itself, cycles through the start
\* note or not.
C9_ConnectedNotesAreTheBall ==
    ( /\ IsConnectedResponse
      /\ response.status # "invalid"
      /\ Resolvable(response.note_id)
      /\ AllEndpointsResolvable )
    =>
        /\ response.status = "ok"
        /\ SeqRange(response.connected_notes)
              = Within(response.note_id, EffectiveDepth(response.depth))
                   \ {response.note_id}
        /\ \A i, j \in 1..Len(response.connected_notes) :
              response.connected_notes[i] = response.connected_notes[j] => i = j

\* C9 witness: the chain N1-N2-N3-N4-N5 traversed from N1 with depth 2 gave
\* N2 and N3.
C9_Witness ==
    /\ IsConnectedResponse /\ response.status = "ok"
    /\ Len(notes) = 5 /\ Len(connections) = 4
    /\ \A i \in 1..4 : {connections[i].from_note_id, connections[i].to_note_id}
                          = {i, i + 1}
    /\ response.note_id = 1 /\ response.depth = 2
    /\ SeqRange(response.connected_notes) = {2, 3}

\* The same on a graph with a cycle through the start note.
C9_CycleThroughStartReached ==
    /\ IsConnectedResponse /\ response.status = "ok"
    /\ Len(connections) = 3
    /\ \E a, b \in 1..3 :
          /\ Cardinality({response.note_id, a, b}) = 3
          /\ connections[1].from_note_id = response.note_id
          /\ connections[1].to_note_id = a
          /\ connections[2].from_note_id = a
          /\ connections[2].to_note_id = b
          /\ connections[3].from_note_id = b
          /\ connections[3].to_note_id = response.note_id
    /\ response.depth > 2
    /\ Len(response.connected_notes) = 2

\* C10: the frontier crosses a connection either way (a readable note at the
\* other end of a connection that touches a note within effective depth - 1
\* of the start is the start or is returned, whether it is the from or the to
\* end), and every returned connection has the from_note_id and to_note_id of
\* the backend row of that id.
C10_BothWaysDirectionKept ==
    (IsConnectedResponse /\ response.status = "ok") =>
        LET frontier == Within(response.note_id,
                               EffectiveDepth(response.depth) - 1)
            found == {response.note_id} \cup SeqRange(response.connected_notes)
        IN  /\ \A i \in 1..Len(connections) :
                  LET c == connections[i] IN
                  /\ (c.from_note_id \in frontier /\ Resolvable(c.to_note_id))
                        => c.to_note_id \in found
                  /\ (c.to_note_id \in frontier /\ Resolvable(c.from_note_id))
                        => c.from_note_id \in found
            /\ \A k \in 1..Len(response.connections) :
                  LET r == response.connections[k] IN
                  \E i \in 1..Len(connections) :
                      /\ connections[i].id = r.id
                      /\ connections[i].from_note_id = r.from_note_id
                      /\ connections[i].to_note_id = r.to_note_id

\* C10 witness: a note was found only through a connection that points at the
\* start note, and that connection is returned pointing at the start note.
C10_Witness ==
    /\ IsConnectedResponse /\ response.status = "ok"
    /\ \E i \in 1..Len(connections) :
          LET c == connections[i] IN
          /\ c.to_note_id = response.note_id
          /\ c.from_note_id # response.note_id
          /\ \A j \in 1..Len(connections) :
                connections[j].from_note_id # response.note_id
          /\ c.from_note_id \in SeqRange(response.connected_notes)
          /\ \E k \in 1..Len(response.connections) :
                response.connections[k]
                   = [id |-> c.id, from_note_id |-> c.from_note_id,
                      to_note_id |-> response.note_id]

-----------------------------------------------------------------------------
(* C11 - C14: the rounds and the queries of find_connected_notes *)

\* How many entries of the query log of the last response name this table.
QueriesOn(table) ==
    Cardinality({ i \in 1..Len(response.queries) : response.queries[i] = table })

\* The expansion rounds the last traversal ran: each issues the outgoing and
\* the incoming connection query.
Rounds == QueriesOn("connections") \div 2

\* The notes whose connections round r asks for: the start note in round 1,
\* afterwards the endpoints first met in round r - 1.
RoundFrontier(start, r) ==
    IF r = 1 THEN {start} ELSE Within(start, r - 1) \ Within(start, r - 2)

\* The ids of the connections leaving (outgoing) or entering the notes of S,
\* in the order the backend returns them.
ConnIdsAt(S, outgoing) ==
    LET rows == SelectSeq(connections,
                    LAMBDA c : IF outgoing THEN c.from_note_id \in S
                               ELSE c.to_note_id \in S)
    IN  [i \in 1..Len(rows) |-> rows[i].id]

\* The connection ids in the order rounds 1..r come upon them, repeats kept.
RECURSIVE DiscoveredConnIds(_, _)
DiscoveredConnIds(start, r) ==
    IF r = 0 THEN <<>>
    ELSE DiscoveredConnIds(start, r - 1)
         \o ConnIdsAt(RoundFrontier(start, r), TRUE)
         \o ConnIdsAt(RoundFrontier(start, r), FALSE)

\* No connection has the note as an endpoint.
Isolated(id) ==
    \A i \in 1..Len(connections) :
        connections[i].from_note_id # id /\ connections[i].to_note_id # id

\* C11: for any integer depth, find_connected_notes runs at least 1 and at
\* most 5 expansion rounds: it runs the requested depth clamped to 1..5
\* unless the frontier is exhausted earlier, so every returned note is within
\* that many hops, and within 5 hops, of the start.
C11_RoundsClampedToOneToFive ==
    (IsConnectedResponse /\ response.status = "ok") =>
        LET d == EffectiveDepth(response.depth)
            start == response.note_id
        IN  /\ Rounds >= 1 /\ Rounds <= 5
            /\ Rounds <= d
            /\ Rounds < d => RoundFrontier(start, Rounds + 1) = {}
            /\ SeqRange(response.connected_notes) \subseteq Within(start, d)
            /\ SeqRange(response.connected_notes) \subseteq Within(start, 5)

\* C11 witness: the chain of 7 notes traversed from its first note with depth
\* 6 ran 5 rounds and returned the next five notes, not the seventh.
C11_Witness ==
    /\ IsConnectedResponse /\ response.status = "ok"
    /\ Len(notes) = 7 /\ Len(connections) = 6
    /\ response.note_id = 1 /\ response.depth = MaxTraversalDepth + 1
    /\ Rounds = 5
    /\ SeqRange(response.connected_notes) = 2..6

\* The lower end of the clamp: depth 0 ran one round.
C11_DepthZeroReached ==
    /\ IsConnectedResponse /\ response.status = "ok"
    /\ response.depth = 0
    /\ Rounds = 1
    /\ response.connected_notes # <<>>

\* C12: the returned connections list holds no connection id twice, whether
\* the connection was returned by both queries of one round or by queries of
\* different rounds, and keeps the order of first discovery.
C12_ConnectionsOnceInDiscoveryOrder ==
    (IsConnectedResponse /\ response.status = "ok") =>
        /\ \A i, j \in 1..Len(response.connections) :
              response.connections[i].id = response.connections[j].id => i = j
        /\ IdsOf(response.connections)
              = FirstSeenOrder(DiscoveredConnIds(response.note_id,
                                   EffectiveDepth(response.depth)))

\* C12 witness: a connection from the start note to another note was returned
\* by the outgoing query of round 1 and by the incoming query of round 2, and
\* a second connection was discovered after it.
C12_Witness ==
    /\ IsConnectedResponse /\ response.status = "ok"
    /\ response.depth >= 2
    /\ Len(response.connections) >= 2
    /\ connections[response.connections[1].id].from_note_id = response.note_id
    /\ connections[response.connections[1].id].to_note_id # response.note_id
    /\ Len(DiscoveredConnIds(response.note_id, EffectiveDepth(response.depth)))
          > Len(response.connections)

\* A connection from the start note to itself is returned by both queries of
\* round 1 and listed once.
C12_SelfLoopReached ==
    /\ IsConnectedResponse /\ response.status = "ok"
    /\ \E i \in 1..Len(connections) :
          /\ connections[i].from_note_id = response.note_id
          /\ connections[i].to_note_id = response.note_id
    /\ Len(response.connections) >= 2

\* C13: once a round discovers no new note (no endpoint not yet visited), no
\* further connection or note query is issued: a round whose connection
\* queries are not followed by the note query is the last.  For a start note
\* without connections, depth 5 included, exactly one round of connection
\* queries follows the lookup of the start note, no note-detail query is
\* issued and connected_notes is empty.
C13_NoQueryAfterEmptyRound ==
    (IsConnectedResponse /\ response.status = "ok") =>
        LET q == response.queries IN
        /\ \A i \in 1..(Len(q) - 2) :
              ~ (q[i] = "connections" /\ q[i + 1] = "connections"
                 /\ q[i + 2] = "connections")
        /\ Rounds <= QueriesOn("notes")
        /\ Isolated(response.note_id) =>
              /\ q = <<"notes", "connections", "connections">>
              /\ response.connected_notes = <<>>
              /\ response.connections = <<>>

\* C13 witness: a start note without connections, in a table that holds
\* connections among other notes, traversed with depth 5.
C13_Witness ==
    /\ IsConnectedResponse /\ response.status = "ok"
    /\ Isolated(response.note_id)
    /\ connections # <<>>
    /\ response.depth = 5
    /\ Rounds = 1
    /\ response.connected_notes = <<>>

\* The component is exhausted with rounds to spare: the traversal stopped
\* after the round that found nothing new.
C13_ExhaustedEarlyReached ==
    /\ IsConnectedResponse /\ response.status = "ok"
    /\ response.connected_notes # <<>>
    /\ Rounds = 2
    /\ Rounds < EffectiveDepth(response.depth)

\* C14: if the start id does not resolve to a note the caller can read, the
\* operation fails with the not-found error, returns no root, no connected
\* note and no connection, and issues no connection query.
C14_UnresolvedStartIsNotFound ==
    ( /\ IsConnectedResponse
      /\ response.status # "invalid"
      /\ ~Resolvable(response.note_id) )
    =>
        /\ response.status = "not_found"
        /\ response.root = None
        /\ response.connected_notes = <<>>
        /\ response.connections = <<>>
        /\ QueriesOn("connections") = 0

\* C14 witness: the start id names a note the caller cannot read although
\* connections of the table end at it.
C14_Witness ==
    /\ IsConnectedResponse /\ response.status = "not_found"
    /\ ~Resolvable(response.note_id)
    /\ ~Isolated(response.note_id)
    /\ response.queries = <<"notes">>

-----------------------------------------------------------------------------
(* C15 - C18: the aggregations over a workspace *)

IsStatsResponse == response.op = "get_workspace_stats"

\* The notes lying on the desktops of workspace wid, the folders and the
\* connections of those desktops, and the assets attached to those notes
\* (positions in the tables, which are the row ids).
NotesOfWorkspace(wid) ==
    { i \in 1..Len(notes) : notes[i].desktop_id \in FetchedIds(wid) }
FoldersOfWorkspace(wid) ==
    { i \in 1..Len(folders) : folders[i].desktop_id \in FetchedIds(wid) }
ConnectionsOfWorkspace(wid) ==
    { i \in 1..Len(connections) : connections[i].desktop_id \in FetchedIds(wid) }
AssetsOfWorkspace(wid) ==
    { i \in 1..Len(assets) : assets[i].note_id \in NotesOfWorkspace(wid) }

\* The notes lying on one desktop.
NotesOnDesktop(did) == { i \in 1..Len(notes) : notes[i].desktop_id = did }

\* The desktop nodes of a tree, in pre-order.
RECURSIVE TreeNodes(_)
TreeNodes(tree) ==
    IF tree = <<>> THEN <<>>
    ELSE <<Head(tree)>> \o TreeNodes(Head(tree).children)
         \o TreeNodes(Tail(tree))

ZeroStats == [desktops |-> 0, notes |-> 0, folders |-> 0, connections |-> 0]

\* C15: get_workspace_stats on a workspace whose desktop query returns no
\* rows returns desktops, notes, folders, connections and assets all 0 and
\* queries no table after desktops.
C15_StatsOfNoDesktopsAreZero ==
    ( /\ IsStatsResponse
      /\ response.status # "invalid"
      /\ FetchedIds(response.workspace_id) = {} )
    =>
        /\ response.status = "ok"
        /\ response.desktops = 0 /\ response.notes = 0
        /\ response.folders = 0 /\ response.connections = 0
        /\ response.assets = 0
        /\ response.queries = <<"desktops">>

\* C15 witness: the stats of an existing workspace without desktops, asked
\* while another workspace holds desktops, notes and assets.
C15_Witness ==
    /\ IsStatsResponse /\ response.status = "ok"
    /\ response.workspace_id \in WorkspaceIds
    /\ FetchedIds(response.workspace_id) = {}
    /\ notes # <<>> /\ assets # <<>>
    /\ response.queries = <<"desktops">>

\* C16: the assets value of get_workspace_stats is the number of assets whose
\* note_id is a note whose desktop_id is a desktop of the workspace, got by
\* querying desktops, then the note ids of those desktops, then the assets of
\* those notes; with desktops but no notes it is 0 and assets is not queried.
C16_AssetsCountedThroughNotes ==
    (IsStatsResponse /\ response.status = "ok") =>
        LET wid == response.workspace_id IN
        /\ response.assets = Cardinality(AssetsOfWorkspace(wid))
        /\ (FetchedIds(wid) # {} /\ NotesOfWorkspace(wid) # {}) =>
              response.queries = <<"desktops", "notes", "folders",
                                   "connections", "notes", "assets">>
        /\ (FetchedIds(wid) # {} /\ NotesOfWorkspace(wid) = {}) =>
              /\ response.assets = 0
              /\ QueriesOn("assets") = 0

\* C16 witness: some assets hang on notes of the workspace and some on notes
\* of another workspace; only the former are counted.
C16_Witness ==
    /\ IsStatsResponse /\ response.status = "ok"
    /\ response.assets >= 1
    /\ response.assets < Len(assets)
    /\ QueriesOn("assets") = 1

\* The workspace has desktops but no notes while assets exist elsewhere.
C16_NoNotesReached ==
    /\ IsStatsResponse /\ response.status = "ok"
    /\ FetchedIds(response.workspace_id) # {}
    /\ NotesOfWorkspace(response.workspace_id) = {}
    /\ assets # <<>>
    /\ response.desktops >= 1 /\ response.assets = 0

\* C17: in the result of get_workspace_index every desktop node has
\* note_count equal to the number of fetched notes on that desktop and its
\* notes list holds exactly those notes; stats.desktops is the number of
\* desktops of the workspace and stats.notes the number of notes on them.
C17_NoteCountsAndStats ==
    (IsIndexResponse /\ response.status = "ok") =>
        LET wid == response.workspace_id
            nodes == TreeNodes(response.tree)
        IN  /\ \A k \in 1..Len(nodes) :
                  /\ nodes[k].note_count = Cardinality(NotesOnDesktop(nodes[k].id))
                  /\ Len(nodes[k].notes) = nodes[k].note_count
                  /\ SeqRange(nodes[k].notes) = NotesOnDesktop(nodes[k].id)
            /\ response.stats.desktops = Cardinality(FetchedIds(wid))
            /\ response.stats.notes = Cardinality(NotesOfWorkspace(wid))

\* C17 witness: Root with the children A and B, one note each, gives Root at
\* level 0, A and B at level 1, note_count 1 each, stats.desktops 3 and
\* stats.notes 3.
C17_Witness ==
    /\ IsIndexResponse /\ response.status = "ok"
    /\ Len(response.tree) = 1
    /\ response.tree[1].level = 0 /\ response.tree[1].note_count = 1
    /\ Len(response.tree[1].children) = 2
    /\ \A k \in 1..2 :
          /\ response.tree[1].children[k].level = 1
          /\ response.tree[1].children[k].note_count = 1
          /\ response.tree[1].children[k].children = <<>>
    /\ response.stats.desktops = 3
    /\ response.stats.notes = 3
    /\ Len(notes) > 3

\* C18: get_workspace_index on an existing workspace without desktops returns
\* successfully with an empty tree, empty flat_notes and flat_folders and all
\* stats 0, and queries neither notes nor folders nor connections.
C18_IndexOfNoDesktopsIsEmpty ==
    ( /\ IsIndexResponse
      /\ response.workspace_id \in WorkspaceIds
      /\ FetchedIds(response.workspace_id) = {} )
    =>
        /\ response.status = "ok"
        /\ response.tree = <<>>
        /\ response.flat_notes = <<>>
        /\ response.flat_folders = <<>>
        /\ response.stats = ZeroStats
        /\ response.queries = <<"workspaces", "desktops">>

\* C18 witness: the index of an existing workspace without desktops, asked
\* while another workspace holds desktops, notes and a folder.
C18_Witness ==
    /\ IsIndexResponse /\ response.status = "ok"
    /\ response.workspace_id \in WorkspaceIds
    /\ FetchedIds(response.workspace_id) = {}
    /\ notes # <<>> /\ folders # <<>>
    /\ response.tree = <<>>

-----------------------------------------------------------------------------
(* C19, C20: the rate limiter *)

\* The calls of the given kind that were accepted before call i, or before
\* the end of the log if i is past it, with a timestamp inside the window of
\* 60 seconds that ends at time t: later than t - 60 and no later than t.
AcceptedInWindow(is_write, i, t) ==
    { j \in 1..Len(calls) :
        /\ j < i
        /\ calls[j].accepted
        /\ calls[j].is_write = is_write
        /\ calls[j].ts > t - 60
        /\ calls[j].ts <= t }

\* The limit configured for the kind of call.
QuotaOf(is_write) == IF is_write THEN RateLimitWrite ELSE RateLimitRead

\* C19: reads and writes are throttled independently: a write call is
\* rejected only if the accepted write calls of the preceding 60 seconds have
\* reached the write limit, and a read call only if the accepted read calls
\* have reached the read limit.
C19_ReadAndWriteThrottledApart ==
    \A i \in 1..Len(calls) :
        ~calls[i].accepted =>
            Cardinality(AcceptedInWindow(calls[i].is_write, i, calls[i].ts))
               >= QuotaOf(calls[i].is_write)

\* C20: under any order in which the waiting requests are run and any
\* non-decreasing clock, the accepted read calls with timestamps inside any
\* window of 60 seconds never exceed rate_limit_read and the accepted write
\* calls never exceed rate_limit_write, and a call made when the quota of its
\* kind is reached is rejected.
C20_QuotaNeverExceeded ==
    /\ \A t \in 0..now, is_write \in BOOLEAN :
          Cardinality(AcceptedInWindow(is_write, Len(calls) + 1, t))
             <= QuotaOf(is_write)
    /\ \A i \in 1..Len(calls) :
          Cardinality(AcceptedInWindow(calls[i].is_write, i, calls[i].ts))
             >= QuotaOf(calls[i].is_write)
          => ~calls[i].accepted
    /\ \A i, j \in 1..Len(calls) : i < j => calls[i].ts <= calls[j].ts

\* C20 witness: the read quota was filled, a read made at the quota was
\* rejected, and once the window had passed a read was accepted.
C20_Witness ==
    /\ response.op = "check_rate_limit" /\ response.status = "admitted"
    /\ Len(calls) = MaxCalls
    /\ \E i \in 1..Len(calls) :
          /\ ~calls[i].accepted /\ ~calls[i].is_write
          /\ Cardinality(AcceptedInWindow(FALSE, i, calls[i].ts)) = RateLimitRead
    /\ ~calls[Len(calls)].is_write
    /\ calls[Len(calls)].accepted
    /\ calls[Len(calls)].ts >= Window

\* A write is rejected at the write quota.
C20_WriteRejectedReached ==
    /\ response.op = "check_rate_limit" /\ response.status = "rate_limited"
    /\ response.is_write
    /\ Cardinality(AcceptedInWindow(TRUE, Len(calls), now)) = RateLimitWrite

-----------------------------------------------------------------------------
(* C26: the tree of get_workspace_index against its flat lists and stats *)

\* The desktop is reached from a root through fetched desktops: it lies on no
\* parent_id cycle and neither it nor a desktop above it names a parent that
\* was not fetched.
ReachedFromRoot(id, wid) == ~OnCycle(id) /\ ~UnderMissingParent(id, wid)

\* The nodes of the tree of the last response that stand for desktop id, and
\* those whose notes list holds note nid (positions in pre-order).
NodesOf(id) ==
    { k \in 1..Len(TreeNodes(response.tree)) :
        TreeNodes(response.tree)[k].id = id }
NodesHolding(nid) ==
    { k \in 1..Len(TreeNodes(response.tree)) :
        nid \in SeqRange(TreeNodes(response.tree)[k].notes) }

C26_CycleLeftOutReached ==
    /\ IsIndexResponse /\ response.status = "ok"
    /\ response.tree # <<>>
    /\ \E id \in FetchedIds(response.workspace_id) : OnCycle(id)
    /\ Len(response.flat_notes) = 3
    /\ Len(TreeNodes(response.tree)) = 1

-----------------------------------------------------------------------------
(* C27, C28: the connections returned by find_connected_notes *)

\* The root note and the returned connected notes.
ReturnedNotes == {response.root} \cup SeqRange(response.connected_notes)

\* C27: when every endpoint note is resolvable, both ends of every returned
\* connection are among the root note and the returned connected_notes.
C27_ReturnedEndpointsAreReturnedNotes ==
    ( /\ IsConnectedResponse /\ response.status = "ok"
      /\ AllEndpointsResolvable )
    =>
        \A k \in 1..Len(response.connections) :
            /\ response.connections[k].from_note_id \in ReturnedNotes
            /\ response.connections[k].to_note_id \in ReturnedNotes

\* C27 witness: a connection found in the last round, whose far end is a
\* note first met in that round, is returned together with that note.
C27_Witness ==
    /\ IsConnectedResponse /\ response.status = "ok"
    /\ AllEndpointsResolvable
    /\ Rounds = EffectiveDepth(response.depth)
    /\ \E k \in 1..Len(response.connections) :
          LET c == response.connections[k] IN
          /\ c.from_note_id \notin Within(response.note_id, Rounds - 1)
          /\ c.to_note_id \in Within(response.note_id, Rounds - 1)
          /\ c.from_note_id \in SeqRange(response.connected_notes)

\* C28 as claimed: every backend connection whose two ends are both among
\* the root note and the returned connected_notes is in the returned list.
C28_ConnectionsCompleteForReturnedNotes ==
    (IsConnectedResponse /\ response.status = "ok") =>
        \A i \in 1..Len(connections) :
            ( /\ connections[i].from_note_id \in ReturnedNotes
              /\ connections[i].to_note_id \in ReturnedNotes )
            => connections[i].id \in SeqRange(IdsOf(response.connections))

\* C28 as amended: the returned connections are the backend connections with
\* an end within effective depth - 1 hops of the start note (the connections
\* a round asked for); a connection between two returned notes that are both
\* exactly effective depth hops away is not returned.
C28_ConnectionsOfTheFrontiers ==
    (IsConnectedResponse /\ response.status = "ok") =>
        LET asked == Within(response.note_id,
                            EffectiveDepth(response.depth) - 1)
        IN  /\ SeqRange(IdsOf(response.connections))
                  = { connections[i].id :
                        i \in { j \in 1..Len(connections) :
                                  \/ connections[j].from_note_id \in asked
                                  \/ connections[j].to_note_id \in asked } }
            /\ \A i \in 1..Len(connections) :
                  ( /\ connections[i].from_note_id \in ReturnedNotes
                    /\ connections[i].to_note_id \in ReturnedNotes
                    /\ connections[i].id
                          \notin SeqRange(IdsOf(response.connections)) )
                  => /\ connections[i].from_note_id \notin asked
                     /\ connections[i].to_note_id \notin asked

\* C28 witness: two notes one hop from the start are returned with the
\* connections that lead to them, and the connection between the two is not.
C28_Witness ==
    /\ IsConnectedResponse /\ response.status = "ok"
    /\ EffectiveDepth(response.depth) = 1
    /\ Len(response.connections) = 2
    /\ \E i \in 1..Len(connections) :
          /\ connections[i].from_note_id \in SeqRange(response.connected_notes)
          /\ connections[i].to_note_id \in SeqRange(response.connected_notes)
          /\ connections[i].from_note_id # connections[i].to_note_id
          /\ connections[i].id \notin SeqRange(IdsOf(response.connections))

-----------------------------------------------------------------------------
(* C30: the count field of the REST api_search *)

\* C30: in the response of api_search the count field equals the number of
\* items of the returned results list.
C30_CountIsNumberReturned ==
    IsApiSearchResponse => response.count = Len(response.results)

-----------------------------------------------------------------------------
(* C29: the connections create_connection stores *)

\* The step is a call of create_connection that was rejected.
CreateConnectionRejected ==
    /\ response = NoResponse
    /\ response'.op = "create_connection"
    /\ response'.status # "ok"

\* No stored connection joins a note to itself, no two stored connections
\* have the same ordered pair of ends, and both ends of every stored
\* connection are notes of the connection's desktop.
StoredConnectionsWellFormed ==
    /\ \A i \in 1..Len(connections) :
          /\ connections[i].from_note_id # connections[i].to_note_id
          /\ \E a, b \in 1..Len(notes) :
                /\ notes[a].id = connections[i].from_note_id
                /\ notes[b].id = connections[i].to_note_id
                /\ notes[a].desktop_id = connections[i].desktop_id
                /\ notes[b].desktop_id = connections[i].desktop_id
    /\ \A i, j \in 1..Len(connections) :
          ( /\ connections[i].from_note_id = connections[j].from_note_id
            /\ connections[i].to_note_id = connections[j].to_note_id )
          => i = j

\* C29: starting from an empty connection table, after any sequence of
\* create_connection calls the stored connections are well-formed as above
\* (the notes do not change desktop, so a note of the desktop at creation time
\* is one now), and a rejected call leaves the connection table unchanged.
C29_StoredConnectionsStayWellFormed ==
    /\ []StoredConnectionsWellFormed
    /\ [][CreateConnectionRejected => connections' = connections]_vars

\* C29 witness: both directions between two notes are stored and a further
\* call for one of the pairs was rejected as existing.
C29_Witness ==
    /\ response.op = "create_connection" /\ response.status = "exists"
    /\ Len(connections) = 2
    /\ connections[1].from_note_id = connections[2].to_note_id
    /\ connections[1].to_note_id = connections[2].from_note_id

\* Calls rejected for a self connection and for a note of another desktop.
C29_SelfRejectedReached ==
    /\ response.op = "create_connection"
    /\ response.status = "self_connection"
    /\ connections # <<>>

C29_OtherDesktopRejectedReached ==
    /\ response.op = "create_connection"
    /\ response.status = "not_in_desktop"
    /\ response.desktop_id = 1
    /\ response.to_note_id = NConnNotes + 1
    /\ response.from_note_id = 1

-----------------------------------------------------------------------------
(* C25: what a request with a malformed identifier leaves behind *)

\* The step is a read tool rejecting its request for a malformed identifier.
MalformedRejected ==
    /\ response = NoResponse
    /\ response'.op \in {"get_workspace_index", "find_connected_notes"}
    /\ response'.status = "invalid"

\* C25 as stated: a tool request rejected because its identifier is malformed
\* issues no backend query and leaves the recorded request timestamps
\* unchanged.
C25_MalformedLeavesTimestampsUnchanged ==
    [][MalformedRejected =>
          /\ response'.queries = <<>>
          /\ request_timestamps' = request_timestamps]_vars

\* C25 amended: a tool request rejected because its identifier is malformed
\* issues no backend query, but the rate limiter has counted it before the
\* identifier was looked at: the recorded timestamps are those of the last
\* 60 seconds followed by the time of the rejected request.
C25_MalformedIsCounted ==
    [][MalformedRejected =>
          /\ response'.queries = <<>>
          /\ request_timestamps' =
                Append(SelectSeq(request_timestamps,
                                 LAMBDA ts : now - ts < Window), now)]_vars

\* C25 witness: a malformed request was rejected without a query and its
\* timestamp took the last place of the quota.
C25_Witness ==
    /\ response.status = "invalid"
    /\ response.queries = <<>>
    /\ Len(request_timestamps) = RateLimitRead
    /\ request_timestamps[RateLimitRead] = now

\* A malformed request was rejected after the window had passed over an
\* earlier timestamp, and its own timestamp is the only one recorded.
C25_OldDroppedReached ==
    /\ response.status = "invalid"
    /\ now >= Window
    /\ request_timestamps = <<now>>

-----------------------------------------------------------------------------
(* C21: when authenticate() refreshes the credential *)

\* The step is a call of authenticate().
AuthenticateCalled ==
    /\ response = NoResponse
    /\ response'.op = "authenticate"

\* C21: over any sequence of authenticate() calls, the backend refresh is
\* invoked exactly when no user is cached or the time is at or after
\* expires_at minus 60 seconds; in every other call the cached credential is
\* returned unchanged, and when the refresh fails an authentication error is
\* raised and the cached credential and expiry stay as they were.
C21_RefreshExactlyWhenStale ==
    [][AuthenticateCalled =>
          LET stale == \/ current_user = NoUser
                       \/ now >= token_expires_at - 60
          IN  /\ response'.refresh_called <=> stale
              /\ ~stale => /\ response'.status = "ok"
                           /\ response'.user = current_user
                           /\ UNCHANGED session
              /\ response'.status # "ok" =>
                    /\ response'.status = "authentication_error"
                    /\ UNCHANGED session]_vars

\* C21 witness: a refresh failed while a credential was cached, and the
\* credential is still cached.
C21_Witness ==
    /\ response.op = "authenticate"
    /\ response.status = "authentication_error"
    /\ current_user # NoUser

\* The cached credential was returned without a refresh.
C21_CachedReturnedReached ==
    /\ response.op = "authenticate"
    /\ ~response.refresh_called
    /\ response.user = current_user

-----------------------------------------------------------------------------
(* C22: what a delete tool answers when its id matches no row *)

DeleteTools ==
    {"delete_workspace", "delete_desktop", "delete_note", "delete_folder",
     "delete_connection", "delete_asset"}

\* The response is that of a delete tool whose well-formed id matched no row
\* and which the rate limiter had admitted.
DeletedNothing ==
    /\ response.op \in DeleteTools
    /\ response.status \notin {"rate_limited", "invalid"}
    /\ response.matched = 0

C22_WorkspaceNotFoundReached ==
    /\ response.op = "delete_workspace"
    /\ response.status = "not_found"
    /\ response.matched = 0

C22_AssetNotFoundReached ==
    /\ response.op = "delete_asset"
    /\ response.status \in {"not_found", "api_error"}
    /\ response.matched = 0
    /\ Len(assets) < NDeleteRows

-----------------------------------------------------------------------------
(* C23: sendell_init called twice *)

\* The step is a call of sendell_init made right after a call of
\* sendell_init for the same instance name returned.
SecondInit ==
    /\ response.op = "sendell_init"
    /\ response'.op = "sendell_init"
    /\ response'.instance_name = response.instance_name

\* C23: for any instance_name, a second call of sendell_init after a first
\* call that returned, with no write in between, creates no desktop, folder
\* or note and returns the hub desktop id and the four child desktop ids the
\* first call returned.
C23_SendellInitIdempotent ==
    [][SecondInit =>
          /\ desktops' = desktops
          /\ folders' = folders
          /\ notes' = notes
          /\ response'.sendell_hub = response.sendell_hub]_vars

-----------------------------------------------------------------------------
(* C24: the hub sendell_context reports *)

\* The hubs sendell_init created on a call carrying the instance id: the
\* parents of the desktops holding the instance's configuration note.
HubsCreatedFor(instance_id) ==
    { desktops[i].parent_id :
        i \in { k \in 1..Len(desktops) :
                  \E n \in 1..Len(notes) :
                      /\ notes[n].sendell_instance = instance_id
                      /\ notes[n].desktop_id = desktops[k].id } }

\* C24: after sendell_init has run for one or more instances, sendell_context
\* for an instance reports as hub desktop_id the hub sendell_init created for
\* that instance, never the hub of another instance.
C24_ContextReportsOwnHub ==
    ( /\ response.op = "sendell_context"
      /\ response.status = "ok"
      /\ HubsCreatedFor(response.instance_id) # {} )
    => response.sendell_hub.desktop_id \in HubsCreatedFor(response.instance_id)

====
